---- MODULE Spec2Model ----
(***************************************************************************)
(* A model of the moded editor core: the relocatable-gap array             *)
(* (GapBuffer<T>), the line-indexed text store (TextBuffer) and its UTF-8  *)
(* iterators, translated from src/src/gap_buffer.rs.                       *)
(*                                                                         *)
(* Indices are 0-based as in the source; a TLA+ sequence s holds the Rust  *)
(* element s[i] at position i + 1.  A panic of the Rust code (a slice or   *)
(* index out of range, a failed assert!, an unsigned subtraction below     *)
(* zero, which panics in a debug build and wraps to a value beyond every   *)
(* buffer length in a release build) is recorded in the `ok` field of the  *)
(* value the operation returns, or as the value FAULT of a read.           *)
(*                                                                         *)
(* An operation whose source computes a value once and uses it several     *)
(* times is split into stages, the value being the parameter of the next   *)
(* stage.                                                                  *)
(***************************************************************************)
EXTENDS Integers, Sequences, FiniteSets, TLC

VARIABLES gbuf, ref, tb, last, it

vars == <<gbuf, ref, tb, last, it>>

(***************************************************************************)
(* Bounds of the model.                                                    *)
(***************************************************************************)
\* longest vector handed to GapBuffer::new in the gap-array specification
MaxInit == 2
\* largest logical length the gap-array specification lets an insert reach
MaxLen == 4
\* longest slice handed to one GapBuffer::insert
MaxData == 2
\* spare capacity Vec::reserve / a Vec handed to GapBuffer::new may have
ReserveSlack == 1
\* most lines of a loaded buffer in the text-store specification
MaxInitLines == 2
\* most chars of one line of a loaded buffer
MaxLineLen == 2
\* most lines the text-store specification lets an edit reach
MaxLines == 3
\* most bytes the text-store specification lets an edit reach
MaxBytes == 7
\* most edit operations of one run of the text-store specification
MaxOps == 2
\* most chars of a buffer the forward-iterator specification loads
MaxChars == 2
\* most ticks of one run of the editor specification
MaxTicks == 2

\* the element values of the generic gap array under test
Elems == {1, 2}

\* the content of a cell of the backing Vec that was never written
\* (Vec::set_len over uninitialized capacity)
UNINIT == 0 - 1

\* the value of a computation that panicked (an index or a slice out of range, an
\* unsigned subtraction below zero) or whose behaviour is undefined
FAULT == 0 - 2

(***************************************************************************)
(* Helpers.                                                                *)
(***************************************************************************)
Min(a, b) == IF a < b THEN a ELSE b

Max(a, b) == IF a < b THEN b ELSE a

\* all sequences over S of length at most n
SeqsUpTo(S, n) == UNION {[1..k -> S] : k \in 0..n}

\* n cells of uninitialized storage
Uninit(n) == [i \in 1..n |-> UNINIT]

\* the Rust slice s[a..b]; callers check a <= b <= Len(s) first
Slice(s, a, b) == SubSeq(s, a + 1, b)

\* whether the Rust slice s[a..b] is in range
SliceOk(s, a, b) == a >= 0 /\ a <= b /\ b <= Len(s)

(***************************************************************************)
(* GapBuffer<T>: [data, gap_start, gap_end, ok].                           *)
(***************************************************************************)
\* a gap array whose last operation panicked
Panicked(b) == [b EXCEPT !.ok = FALSE]

\* GapBuffer::new(data) for a Vec of content v and capacity cap >= Len(v)
new(v, cap) ==
    [data |-> v \o Uninit(cap - Len(v)), gap_start |-> Len(v), gap_end |-> cap, ok |-> TRUE]

\* GapBuffer::len
len(b) == Len(b.data) - (b.gap_end - b.gap_start)

\* whether Vec::copy_within(from..from+n, to) is in range
MoveOk(b, from, to, n) ==
    n >= 0 /\ from >= 0 /\ to >= 0 /\ from + n <= Len(b.data) /\ to + n <= Len(b.data)

\* GapBuffer::move_bytes: data.copy_within(from..from+n, to), a memmove
move_bytes(b, from, to, n) ==
    IF MoveOk(b, from, to, n)
    THEN [b EXCEPT !.data = [i \in 1..Len(b.data) |->
             IF i - 1 >= to /\ i - 1 < to + n THEN b.data[i - to + from] ELSE b.data[i]]]
    ELSE Panicked(b)

\* data[gap_start..gap_start + data.len()].copy_from_slice(data); gap_start += data.len()
copy_from_slice(b, d) ==
    IF ~b.ok THEN b
    ELSE IF SliceOk(b.data, b.gap_start, b.gap_start + Len(d))
    THEN [b EXCEPT !.data = [i \in 1..Len(b.data) |->
                      IF i - 1 >= b.gap_start /\ i - 1 < b.gap_start + Len(d)
                      THEN d[i - b.gap_start] ELSE b.data[i]],
                   !.gap_start = b.gap_start + Len(d)]
    ELSE Panicked(b)

\* the gap bounds after a move that did not panic
SetGap(b, gap_start, gap_end) ==
    IF b.ok THEN [b EXCEPT !.gap_start = gap_start, !.gap_end = gap_end] ELSE b

\* assert!(self.gap_end <= self.data.len())
AssertGapEnd(b) == IF b.ok /\ b.gap_end > Len(b.data) THEN Panicked(b) ELSE b

\* the reallocation insert starts with: reserve, set_len to the new capacity,
\* slide the part behind the gap to the end of the new storage
grow(b, added) ==
    SetGap(move_bytes([b EXCEPT !.data = b.data \o Uninit(added)],
                      b.gap_end, b.gap_end + added,
                      IF b.gap_end > Len(b.data) THEN b.gap_end - Len(b.data)
                                                 ELSE Len(b.data) - b.gap_end),
           b.gap_start, b.gap_end + added)

\* the spare capacities a reallocation of insert(b, .., n elements) may add
Slacks(b, n) ==
    IF b.ok /\ b.gap_end - b.gap_start < n THEN 0..ReserveSlack ELSE {0}

\* insert, index # gap_start: the gap is moved to the edit point
InsertMoved(b, index) ==
    IF ~b.ok THEN b
    ELSE IF index > b.gap_start
    THEN SetGap(move_bytes(b, b.gap_end, b.gap_start, index - b.gap_start),
                index, index + (b.gap_end - b.gap_start))
    ELSE SetGap(move_bytes(b, index, index + (b.gap_end - b.gap_start), b.gap_start - index),
                index, index + (b.gap_end - b.gap_start))

\* insert, once the gap is wide enough
InsertGrown(g, index, d) ==
    IF ~g.ok THEN g
    ELSE IF g.gap_start = index THEN copy_from_slice(g, d)
    ELSE AssertGapEnd(copy_from_slice(InsertMoved(g, index), d))

\* GapBuffer::insert(index, data); Vec::reserve(data.len()) adds at least data.len()
\* cells (len == capacity here), Len(d) + slack of them
insert(b, index, d, slack) ==
    IF ~b.ok THEN b
    ELSE IF b.gap_end < b.gap_start THEN Panicked(b)
    ELSE IF b.gap_end - b.gap_start < Len(d)
    THEN InsertGrown(grow(b, Len(d) + slack), index, d)
    ELSE InsertGrown(b, index, d)

\* push_back, new_index > gap_start: gap_start is advanced by data.len() first and
\* the data copied to the cells behind it, the gap left where it was
PushBackBehindGap(g, d) ==
    SetGap(copy_from_slice([g EXCEPT !.gap_start = g.gap_start + Len(d)], d),
           g.gap_start + Len(d), g.gap_end)

\* push_back, new_index < gap_start: the gap is moved to new_index
PushBackMoved(g, d) ==
    copy_from_slice(
        SetGap(move_bytes(g, len(g), len(g) + (g.gap_end - g.gap_start), g.gap_start - len(g)),
               len(g), len(g) + (g.gap_end - g.gap_start)), d)

\* push_back, once the gap is wide enough; new_index is data.len() - gap_size
PushBackGrown(g, d) ==
    IF ~g.ok THEN g
    ELSE IF g.gap_start = len(g) THEN copy_from_slice(g, d)
    ELSE IF len(g) >= g.gap_start THEN PushBackBehindGap(g, d)
    ELSE PushBackMoved(g, d)

\* GapBuffer::push_back(data); the reallocation is the one of insert
push_back(b, d, slack) ==
    IF ~b.ok THEN b
    ELSE IF b.gap_end < b.gap_start THEN Panicked(b)
    ELSE IF b.gap_end - b.gap_start < Len(d)
    THEN PushBackGrown(grow(b, Len(d) + slack), d)
    ELSE PushBackGrown(b, d)

\* remove, gap_size > 0, the span lies across gap_start, the whole span added to
\* gap_end
RemoveAcrossGapWhole(b, index, n) ==
    [b EXCEPT !.gap_end = b.gap_end + n, !.gap_start = index]

\* remove, gap_size > 0, the span lies across gap_start: the gap swallows it
RemoveAcrossGap(b, index, n) ==
    [b EXCEPT !.gap_end = b.gap_end + (n - (b.gap_start - index)), !.gap_start = index]

\* remove, the span ends before gap_start: slide the rest down to the span
RemoveBeforeGap(b, index, n) ==
    SetGap(move_bytes(b, index + n, index, b.gap_start - index - n),
           index + (b.gap_start - index - n), b.gap_end)

\* remove, the span starts behind gap_end, without sliding the part between them
RemoveAfterGapStale(b, index, n) ==
    SetGap(b, b.gap_start + (index - b.gap_end), index + n)

\* remove, the span starts behind gap_end: slide the part between them down
RemoveAfterGap(b, index, n) ==
    SetGap(move_bytes(b, b.gap_end, b.gap_start, index - b.gap_end),
           b.gap_start + (index - b.gap_end), index + n)

\* remove on the physical index of `from`
RemoveAt(b, from, index, n) ==
    IF b.gap_end - b.gap_start = 0
    THEN [b EXCEPT !.gap_start = from, !.gap_end = from + n]
    ELSE IF index = b.gap_end
    THEN [b EXCEPT !.gap_end = b.gap_end + n]
    ELSE IF index + n = b.gap_start
    THEN [b EXCEPT !.gap_start = index]
    ELSE IF index < b.gap_start /\ index + n > b.gap_start
    THEN RemoveAcrossGap(b, index, n)
    ELSE IF index < b.gap_start
    THEN AssertGapEnd(RemoveBeforeGap(b, index, n))
    ELSE AssertGapEnd(RemoveAfterGap(b, index, n))

\* GapBuffer::remove(from, len)
remove(b, from, n) ==
    IF ~b.ok THEN b
    ELSE IF b.gap_end < b.gap_start THEN Panicked(b)
    ELSE RemoveAt(b, from, IF from < b.gap_start THEN from ELSE from + (b.gap_end - b.gap_start), n)

\* a slice read that panicked
ReadPanic == <<FAULT>>

\* GapBuffer::get_one(pos)
get_one(b, pos) ==
    IF pos < b.gap_start
    THEN IF pos >= 0 /\ pos < Len(b.data) THEN b.data[pos + 1] ELSE FAULT
    ELSE IF b.gap_end >= b.gap_start /\ pos + (b.gap_end - b.gap_start) < Len(b.data)
         THEN b.data[pos + (b.gap_end - b.gap_start) + 1] ELSE FAULT

\* data[a..b].to_vec()
SliceOrPanic(s, a, b) == IF SliceOk(s, a, b) THEN Slice(s, a, b) ELSE ReadPanic

\* first_part.extend_from_slice(second_part)
Extend(first_part, second_part) ==
    IF first_part = ReadPanic \/ second_part = ReadPanic THEN ReadPanic
    ELSE first_part \o second_part

\* GapBuffer::get_by_range(start..end)
get_by_range(b, start, end) ==
    IF ~(start <= end) \/ b.gap_end < b.gap_start THEN ReadPanic
    ELSE IF end < b.gap_start THEN SliceOrPanic(b.data, start, end)
    ELSE IF start >= b.gap_start
    THEN SliceOrPanic(b.data, start + (b.gap_end - b.gap_start), end + (b.gap_end - b.gap_start))
    ELSE Extend(SliceOrPanic(b.data, start, b.gap_start),
                SliceOrPanic(b.data, b.gap_end, end + (b.gap_end - b.gap_start)))

\* GapBuffer::get_to_end(start)
get_to_end(b, start) ==
    IF b.gap_end < b.gap_start THEN ReadPanic
    ELSE IF start >= b.gap_start
    THEN SliceOrPanic(b.data, start + (b.gap_end - b.gap_start), Len(b.data))
    ELSE Extend(SliceOrPanic(b.data, start, b.gap_start),
                SliceOrPanic(b.data, b.gap_end, Len(b.data)))

\* `*val += by` on the cells lo..hi and lo2..hi2 of data
AddToCells(b, lo, hi, lo2, hi2, by) ==
    IF SliceOk(b.data, lo, hi) /\ SliceOk(b.data, lo2, hi2)
    THEN [b EXCEPT !.data = [i \in 1..Len(b.data) |->
             IF (i - 1 >= lo /\ i - 1 < hi) \/ (i - 1 >= lo2 /\ i - 1 < hi2)
             THEN b.data[i] + by ELSE b.data[i]]]
    ELSE Panicked(b)

\* GapBuffer<usize>::increment_range_by(start..end, by)
increment_range_by(b, start, end, by) ==
    IF ~b.ok THEN b
    ELSE IF b.gap_end < b.gap_start THEN Panicked(b)
    ELSE IF end < b.gap_start THEN AddToCells(b, start, end, 0, 0, by)
    ELSE IF start >= b.gap_start
    THEN AddToCells(b, start + (b.gap_end - b.gap_start), end + (b.gap_end - b.gap_start),
                    0, 0, by)
    ELSE AddToCells(b, start, b.gap_start, b.gap_end, end + (b.gap_end - b.gap_start), by)

\* `*val -= by` below zero panics (debug) or wraps to a value beyond every buffer
\* length (release)
NoUnderflow(before, after) ==
    IF after.ok /\ \E i \in 1..Len(after.data) : after.data[i] < 0 /\ after.data[i] # before.data[i]
    THEN Panicked(after) ELSE after

\* GapBuffer<usize>::decrement_range_by(start..end, by)
decrement_range_by(b, start, end, by) ==
    NoUnderflow(b, increment_range_by(b, start, end, 0 - by))

(***************************************************************************)
(* The byte and UTF-8 iterators over GapBuffer<u8>.  An iterator is its    *)
(* index; a step returns [kind, val, index] with kind "some", "none",      *)
(* "panic" (an index out of range) or "ub" (unwrap_unchecked on None,      *)
(* char::from_u32_unchecked on a value that is no scalar value).           *)
(***************************************************************************)
Step(kind, val, index) == [kind |-> kind, val |-> val, index |-> index]

\* data[p] read by an iterator that moves on to `index`
IterRead(b, p, index) ==
    IF p >= 0 /\ p < Len(b.data) THEN Step("some", b.data[p + 1], index)
    ELSE Step("panic", 0, index)

\* GapBufferIter::next
GapBufferIter_next(b, index) ==
    IF b.gap_end < b.gap_start \/ Len(b.data) < b.gap_end - b.gap_start THEN Step("panic", 0, index)
    ELSE IF index >= Len(b.data) - (b.gap_end - b.gap_start) THEN Step("none", 0, index)
    ELSE IF index + 1 <= b.gap_start THEN IterRead(b, index, index + 1)
    ELSE IterRead(b, index + (b.gap_end - b.gap_start), index + 1)

\* GapBufferRevIter::next
GapBufferRevIter_next(b, index) ==
    IF b.gap_end < b.gap_start THEN Step("panic", 0, index)
    ELSE IF index = 0 THEN Step("none", 0, index)
    ELSE IF index - 1 < b.gap_start THEN IterRead(b, index - 1, index - 1)
    ELSE IterRead(b, index - 1 + (b.gap_end - b.gap_start), index - 1)

\* whether char::from_u32_unchecked(c) is defined: c is a Unicode scalar value
IsScalar(c) == c >= 0 /\ c <= 1114111 /\ ~(c >= 55296 /\ c <= 57343)

\* self.inner.next().unwrap_unchecked(): None there is undefined behaviour
Follow(r) == IF r.kind = "none" THEN Step("ub", 0, r.index) ELSE r

\* Some(char::from_u32_unchecked(res)), the iterator left at `index`
AsChar(res, index) == Step(IF IsScalar(res) THEN "some" ELSE "ub", res, index)

\* the length the first byte announces: `match first_byte & LEN_MASK` with
\* LEN_MASK = 0b1111_0000; 0 where the match returns None
Utf8LenOfLead(first_byte) ==
    IF (first_byte \div 16) * 16 = 192 THEN 2
    ELSE IF (first_byte \div 16) * 16 = 224 THEN 3
    ELSE IF (first_byte \div 16) * 16 = 240 THEN 4
    ELSE 0

\* VALUE_MASKS[len - 2], as the modulus that keeps the masked bits
ValueMod(n) == IF n = 2 THEN 32 ELSE IF n = 3 THEN 16 ELSE 8

\* Utf8Iter::next, the fourth byte
Utf8IterFourth(res, b4) ==
    IF b4.kind # "some" THEN b4 ELSE AsChar(res * 64 + (b4.val % 64), b4.index)

\* Utf8Iter::next, the third byte
Utf8IterThird(b, n, res, b3) ==
    IF b3.kind # "some" THEN b3
    ELSE IF n = 3 THEN AsChar(res * 64 + (b3.val % 64), b3.index)
    ELSE Utf8IterFourth(res * 64 + (b3.val % 64), Follow(GapBufferIter_next(b, b3.index)))

\* Utf8Iter::next, the second byte
Utf8IterSecond(b, n, first_byte, b2) ==
    IF b2.kind # "some" THEN b2
    ELSE IF n = 2 THEN AsChar((first_byte % ValueMod(n)) * 64 + (b2.val % 64), b2.index)
    ELSE Utf8IterThird(b, n, (first_byte % ValueMod(n)) * 64 + (b2.val % 64),
                       Follow(GapBufferIter_next(b, b2.index)))

\* Utf8Iter::next, the first byte
Utf8IterFirst(b, f) ==
    IF f.kind # "some" THEN f
    ELSE IF f.val < 128 THEN f
    ELSE IF Utf8LenOfLead(f.val) = 0 THEN Step("none", 0, f.index)
    ELSE Utf8IterSecond(b, Utf8LenOfLead(f.val), f.val, Follow(GapBufferIter_next(b, f.index)))

\* Utf8Iter::next
Utf8Iter_next(b, index) == Utf8IterFirst(b, GapBufferIter_next(b, index))

\* Utf8RevIter::next, the fourth byte from the end
Utf8RevIterFourth(res, b4) ==
    IF b4.kind # "some" THEN b4 ELSE AsChar(res + (b4.val % 8) * 262144, b4.index)

\* Utf8RevIter::next, the third byte from the end
Utf8RevIterThird(b, res, b3) ==
    IF b3.kind # "some" THEN b3
    ELSE IF b3.val >= 224 THEN AsChar(res + (b3.val % 16) * 4096, b3.index)
    ELSE Utf8RevIterFourth(res + (b3.val % 64) * 4096, Follow(GapBufferRevIter_next(b, b3.index)))

\* Utf8RevIter::next, the second byte from the end
Utf8RevIterSecond(b, res, b2) ==
    IF b2.kind # "some" THEN b2
    ELSE IF b2.val >= 192 THEN AsChar(res + (b2.val % 32) * 64, b2.index)
    ELSE Utf8RevIterThird(b, res + (b2.val % 64) * 64, Follow(GapBufferRevIter_next(b, b2.index)))

\* Utf8RevIter::next, the last byte
Utf8RevIterLast(b, l) ==
    IF l.kind # "some" THEN l
    ELSE IF l.val < 128 THEN l
    ELSE Utf8RevIterSecond(b, l.val % 64, Follow(GapBufferRevIter_next(b, l.index)))

\* Utf8RevIter::next
Utf8RevIter_next(b, index) == Utf8RevIterLast(b, GapBufferRevIter_next(b, index))

RECURSIVE Utf8CharsAfter(_, _)
\* the chars a `for ch in iter` loop sees once next() returned r: up to the first
\* None; FAULT ends the sequence where the iterator panics or is undefined
Utf8CharsAfter(b, r) ==
    IF r.kind = "some" THEN <<r.val>> \o Utf8CharsAfter(b, Utf8Iter_next(b, r.index))
    ELSE IF r.kind = "none" THEN <<>>
    ELSE <<FAULT>>

\* the chars a `for ch in iter` loop sees from byte index `index` on
Utf8Chars(b, index) ==
    IF index < 0 THEN <<FAULT>> ELSE Utf8CharsAfter(b, Utf8Iter_next(b, index))

RECURSIVE Utf8SkipAfter(_, _, _)
\* the index of a Utf8Iter after next() returned r and k more calls follow
Utf8SkipAfter(b, r, k) ==
    IF r.kind \notin {"some", "none"} THEN FAULT
    ELSE IF k <= 0 THEN r.index
    ELSE Utf8SkipAfter(b, Utf8Iter_next(b, r.index), k - 1)

\* the index of a Utf8Iter at `index` after k calls of next(), results dropped
Utf8Skip(b, index, k) ==
    IF k <= 0 \/ index < 0 THEN index ELSE Utf8SkipAfter(b, Utf8Iter_next(b, index), k - 1)

\* char::len_utf8
len_utf8(ch) == IF ch < 128 THEN 1 ELSE IF ch < 2048 THEN 2 ELSE IF ch < 65536 THEN 3 ELSE 4

RECURSIVE SumLenUtf8(_, _, _)
\* the sum of len_utf8 over cs[i] for lo <= i < hi (0-based), cs cut at its end
SumLenUtf8(cs, lo, hi) ==
    IF lo >= hi \/ lo >= Len(cs) THEN 0
    ELSE len_utf8(cs[lo + 1]) + SumLenUtf8(cs, lo + 1, hi)

\* whether an enumerate() loop that breaks at i >= k meets a panic or undefined step
FaultWithin(cs, k) == \E i \in 1..Min(k + 1, Len(cs)) : cs[i] = FAULT

(***************************************************************************)
(* TextBuffer: [chars, lines, line_sep, ok]; line_sep is LF = 1, CRLF = 2. *)
(***************************************************************************)
LF == 1

CRLF == 2

\* the byte '\n'
NL == 10

\* the byte '\r'
CR == 13

\* LineSeparator::as_str().as_bytes()
SepBytes(line_sep) == IF line_sep = LF THEN <<NL>> ELSE <<CR, NL>>

\* whether no operation on t has panicked
TOk(t) == t.ok /\ t.chars.ok /\ t.lines.ok

\* a text store whose last operation panicked
TFault(t) == [t EXCEPT !.ok = FALSE]

\* whether bytes ends with suffix (str::ends_with)
EndsWith(bytes, suffix) ==
    Len(bytes) >= Len(suffix)
    /\ SubSeq(bytes, Len(bytes) - Len(suffix) + 1, Len(bytes)) = suffix

\* whether bytes contains "\r\n" (str::contains)
ContainsCRLF(bytes) == \E i \in 1..(Len(bytes) - 1) : bytes[i] = CR /\ bytes[i + 1] = NL

\* the 1-based position of the first x in s, 0 when there is none
FirstIndexOf(s, x) ==
    IF \E i \in 1..Len(s) : s[i] = x
    THEN CHOOSE i \in 1..Len(s) : s[i] = x /\ \A j \in 1..(i - 1) : s[j] # x
    ELSE 0

\* s without one trailing '\r'
StripCR(s) == IF Len(s) > 0 /\ s[Len(s)] = CR THEN SubSeq(s, 1, Len(s) - 1) ELSE s

RECURSIVE StrLinesFrom(_, _)
\* str::lines() on bytes whose first '\n' is at position i (0: none)
StrLinesFrom(bytes, i) ==
    IF bytes = <<>> THEN <<>>
    ELSE IF i = 0 THEN <<bytes>>
    ELSE <<StripCR(SubSeq(bytes, 1, i - 1))>>
         \o StrLinesFrom(SubSeq(bytes, i + 1, Len(bytes)),
                         FirstIndexOf(SubSeq(bytes, i + 1, Len(bytes)), NL))

\* str::lines(): the text between line feeds, one trailing '\r' stripped from each
\* line that a line feed ends; a final line feed starts no further line
StrLines(bytes) == StrLinesFrom(bytes, FirstIndexOf(bytes, NL))

RECURSIVE LineStartsFrom(_, _, _)
\* the loop of from_data: push start, then start += line.len() + line_sep
LineStartsFrom(ls, start, line_sep) ==
    IF ls = <<>> THEN <<>>
    ELSE <<start>> \o LineStartsFrom(Tail(ls), start + Len(Head(ls)) + line_sep, line_sep)

\* from_data once the separator style and the line starts are known
FromDataWith(bytes, line_sep, starts, cslack, lslack) ==
    [chars |-> new(bytes, Len(bytes) + cslack),
     lines |-> new(starts, Len(starts) + lslack),
     line_sep |-> line_sep, ok |-> TRUE]

\* the separator style from_data detects
DetectSep(bytes) == IF ContainsCRLF(bytes) THEN CRLF ELSE LF

\* TextBuffer::from_data(chars); the Vecs handed to GapBuffer::new have capacity
\* len + cslack and len + lslack
from_data(bytes, cslack, lslack) ==
    FromDataWith(bytes, DetectSep(bytes),
                 LineStartsFrom(StrLines(bytes), 0, DetectSep(bytes)), cslack, lslack)

\* TextBuffer::total_lines
total_lines(t) == len(t.lines)

\* the bytes of a line read to the end of the buffer whichever line it is
LineBytesToEnd(t, ln, start) ==
    IF start < 0 \/ total_lines(t) < 1 THEN ReadPanic ELSE get_to_end(t.chars, start)

\* the bytes both line() and raw_line() read, the line starting at byte `start`
LineBytesAt(t, ln, start) ==
    IF start < 0 \/ total_lines(t) < 1 THEN ReadPanic
    ELSE IF ln < total_lines(t) - 1
    THEN get_by_range(t.chars, start, get_one(t.lines, ln + 1))
    ELSE get_to_end(t.chars, start)

RECURSIVE Utf8Valid(_)
\* whether String::from_utf8 accepts bytes (lead and continuation bytes in place)
Utf8Valid(bytes) ==
    IF bytes = <<>> THEN TRUE
    ELSE IF Head(bytes) < 0 THEN FALSE
    ELSE IF Head(bytes) < 128 THEN Utf8Valid(Tail(bytes))
    ELSE IF Head(bytes) >= 194 /\ Head(bytes) <= 223
    THEN /\ Len(bytes) >= 2
         /\ \A i \in 2..2 : bytes[i] >= 128 /\ bytes[i] < 192
         /\ Utf8Valid(SubSeq(bytes, 3, Len(bytes)))
    ELSE IF Head(bytes) >= 224 /\ Head(bytes) <= 239
    THEN /\ Len(bytes) >= 3
         /\ \A i \in 2..3 : bytes[i] >= 128 /\ bytes[i] < 192
         /\ Utf8Valid(SubSeq(bytes, 4, Len(bytes)))
    ELSE IF Head(bytes) >= 240 /\ Head(bytes) <= 244
    THEN /\ Len(bytes) >= 4
         /\ \A i \in 2..4 : bytes[i] >= 128 /\ bytes[i] < 192
         /\ Utf8Valid(SubSeq(bytes, 5, Len(bytes)))
    ELSE FALSE

\* String::from_utf8(bytes).unwrap()
FromUtf8(bytes) == IF Utf8Valid(bytes) THEN bytes ELSE ReadPanic

\* TextBuffer::raw_line, as bytes
raw_line(t, ln) == FromUtf8(LineBytesAt(t, ln, get_one(t.lines, ln)))

\* st without the separator it ends with
StripSep(st, line_sep) ==
    IF st # ReadPanic /\ EndsWith(st, SepBytes(line_sep))
    THEN SubSeq(st, 1, Len(st) - line_sep)
    ELSE st

\* TextBuffer::line, as bytes: raw_line without its trailing separator
line(t, ln) == StripSep(raw_line(t, ln), t.line_sep)

\* the chars utf8_iter(LinePos{line, col: 0}) yields until its first None
LineChars(t, ln) == Utf8Chars(t.chars, get_one(t.lines, ln))

\* a line length that counts the '\r' of a CRLF separator
LineLenAtCountingCR(cs, i, line_sep) ==
    IF i > 0 THEN i - 1
    ELSE IF \E k \in 1..Len(cs) : cs[k] = FAULT THEN FAULT
    ELSE Len(cs)

\* the loop of line_len over the chars cs, '\n' first met at position i (0: never)
LineLenAt(cs, i, line_sep) ==
    IF i > 0
    THEN IF line_sep = CRLF
         THEN IF i - 1 = 0 THEN FAULT ELSE i - 2
         ELSE i - 1
    ELSE IF \E k \in 1..Len(cs) : cs[k] = FAULT THEN FAULT
    ELSE Len(cs)

\* TextBuffer::line_len
line_len(t, ln) == LineLenAt(LineChars(t, ln), FirstIndexOf(LineChars(t, ln), NL), t.line_sep)

\* a - b in usize
SubOrFault(a, b) == IF a < 0 \/ b < 0 \/ a < b THEN FAULT ELSE a - b

\* get_to_end(start).len()
LenOrFault(bytes) == IF bytes = ReadPanic THEN FAULT ELSE Len(bytes)

\* TextBuffer::raw_line_len
raw_line_len(t, ln) ==
    IF ln + 1 < total_lines(t)
    THEN SubOrFault(get_one(t.lines, ln + 1), get_one(t.lines, ln))
    ELSE LenOrFault(get_to_end(t.chars, get_one(t.lines, ln)))

\* the loop of screen_index_to_bytes_index over the chars cs
ScreenIndexIn(cs, index) ==
    IF FaultWithin(cs, index) THEN FAULT ELSE SumLenUtf8(cs, 0, index)

\* TextBuffer::screen_index_to_bytes_index
screen_index_to_bytes_index(t, ln, index) == ScreenIndexIn(LineChars(t, ln), index)

\* lines.increment_range_by(from..lines.len(), by)
IncrementAfter(b, from, by) == increment_range_by(b, from, len(b), by)

\* lines.decrement_range_by(from..lines.len(), by)
DecrementAfter(b, from, by) == decrement_range_by(b, from, len(b), by)

\* insert_into_line, the line starting at byte `start`, the column at actual_bytes
InsertIntoLineAt(t, ln, start, actual_bytes, d, slack) ==
    IF start < 0 \/ actual_bytes < 0 THEN TFault(t)
    ELSE [t EXCEPT !.chars = insert(t.chars, start + actual_bytes, d, slack),
                   !.lines = IncrementAfter(t.lines, ln + 1, Len(d))]

\* TextBuffer::insert_into_line
insert_into_line(t, ln, index, d, slack) ==
    IF ~TOk(t) THEN t
    ELSE InsertIntoLineAt(t, ln, get_one(t.lines, ln),
                          screen_index_to_bytes_index(t, ln, index), d, slack)

\* insert_empty_line, row < total_lines(), the row starting at byte `index`
InsertEmptyLineAt(t, row, index, slack) ==
    IF index < 0 THEN TFault(t)
    ELSE [t EXCEPT !.chars = insert(t.chars, index, SepBytes(t.line_sep), slack),
                   !.lines = IncrementAfter(insert(t.lines, row, <<index>>, slack),
                                            row + 1, t.line_sep)]

\* insert_empty_line behind the last line: the new entry of the line-start table
AppendLineEntryAt(t, row, start, rl, slack) ==
    IF start < 0 \/ rl < 0 \/ start + rl - t.line_sep < 0 THEN TFault(t)
    ELSE [t EXCEPT !.lines = insert(t.lines, row, <<start + rl - t.line_sep>>, slack)]

AppendLineEntry(t, row, slack) ==
    IF ~TOk(t) THEN t
    ELSE AppendLineEntryAt(t, row, get_one(t.lines, row - 1), raw_line_len(t, row - 1), slack)

\* insert_empty_line behind the last line: the separator of the new line
AppendSepAt(t, row, start, rl, slack) ==
    IF start < 0 \/ rl < 0 THEN TFault(t)
    ELSE AppendLineEntry([t EXCEPT !.chars = insert(t.chars, start + rl, SepBytes(t.line_sep), slack)],
                         row, slack)

AppendSep(t, row, slack) ==
    IF ~TOk(t) THEN t
    ELSE AppendSepAt(t, row, get_one(t.lines, row - 1), raw_line_len(t, row - 1), slack)

\* insert_empty_line behind the last line: the separator the last line may lack
EnsureSepAt(t, row, rl, slack) ==
    IF rl < 0 THEN TFault(t)
    ELSE insert_into_line(t, row - 1, rl, SepBytes(t.line_sep), slack)

EnsureSep(t, row, raw, slack) ==
    IF raw = ReadPanic THEN TFault(t)
    ELSE IF EndsWith(raw, SepBytes(t.line_sep)) THEN t
    ELSE EnsureSepAt(t, row, raw_line_len(t, row - 1), slack)

\* TextBuffer::insert_empty_line
insert_empty_line(t, row, slack) ==
    IF ~TOk(t) THEN t
    ELSE IF row < total_lines(t) THEN InsertEmptyLineAt(t, row, get_one(t.lines, row), slack)
    ELSE IF row - 1 < 0 THEN TFault(t)
    ELSE IF row = total_lines(t) THEN AppendSep(EnsureSep(t, row, raw_line(t, row - 1), slack), row, slack)
    ELSE AppendSep(t, row, slack)

\* remove_from_line, the bytes from..from+n known
RemoveSpanOfLine(t, ln, from, n) ==
    [t EXCEPT !.chars = remove(t.chars, from, n),
              !.lines = DecrementAfter(t.lines, ln + 1, n)]

\* remove_from_line, the line starting at byte `start` and holding the chars cs
RemoveFromLineIn(t, ln, start, cs, index, n) ==
    IF start < 0 \/ n < 0 \/ FaultWithin(cs, index + n) THEN TFault(t)
    ELSE RemoveSpanOfLine(t, ln, start + SumLenUtf8(cs, 0, index), SumLenUtf8(cs, index, index + n))

\* TextBuffer::remove_from_line
remove_from_line(t, ln, index, n) ==
    IF ~TOk(t) THEN t
    ELSE RemoveFromLineIn(t, ln, get_one(t.lines, ln), LineChars(t, ln), index, n)

\* remove_line: if self.total_lines() > 1 { self.lines.remove(line, 1) }
DropLineEntry(t, ln) ==
    IF total_lines(t) > 1 THEN [t EXCEPT !.lines = remove(t.lines, ln, 1)] ELSE t

\* remove_line, the bytes removed: the later line starts move down
ShiftAfterRemovedLine(t, ln, n) ==
    IF total_lines(t) < 1 THEN TFault(t)
    ELSE IF ln < total_lines(t) - 1
    THEN DropLineEntry([t EXCEPT !.lines = DecrementAfter(t.lines, ln + 1, n)], ln)
    ELSE DropLineEntry(t, ln)

\* remove_line, the line starting at byte `start` and n bytes long
RemoveLineSpan(t, ln, start, n) ==
    IF start < 0 \/ n < 0 THEN TFault(t)
    ELSE ShiftAfterRemovedLine([t EXCEPT !.chars = remove(t.chars, start, n)], ln, n)

\* TextBuffer::remove_line
remove_line(t, ln) ==
    IF ~TOk(t) THEN t
    ELSE RemoveLineSpan(t, ln, get_one(t.lines, ln), raw_line_len(t, ln))

\* remove_line_sep, the line starting at byte `start` and n bytes long
RemoveLineSepAt(t, ln, start, n) ==
    IF start < 0 \/ n < 0 \/ start + n - t.line_sep < 0 THEN TFault(t)
    ELSE [t EXCEPT !.chars = remove(t.chars, start + n - t.line_sep, t.line_sep),
                   !.lines = remove(DecrementAfter(t.lines, ln + 1, t.line_sep), ln + 1, 1)]

\* TextBuffer::remove_line_sep
remove_line_sep(t, ln) ==
    IF ~TOk(t) THEN t
    ELSE RemoveLineSepAt(t, ln, get_one(t.lines, ln), raw_line_len(t, ln))

\* split_line_at_index, the split at byte `at`
SplitLineAt(t, ln, start, actual_index, slack) ==
    IF start < 0 \/ actual_index < 0 THEN TFault(t)
    ELSE [t EXCEPT !.chars = insert(t.chars, start + actual_index, SepBytes(t.line_sep), slack),
                   !.lines = IncrementAfter(insert(t.lines, ln + 1, <<start + actual_index>>, slack),
                                            ln + 1, t.line_sep)]

\* TextBuffer::split_line_at_index
split_line_at_index(t, ln, index, slack) ==
    IF ~TOk(t) THEN t
    ELSE SplitLineAt(t, ln, get_one(t.lines, ln), screen_index_to_bytes_index(t, ln, index), slack)

RECURSIVE RemoveLines(_, _, _)
\* the loop of remove_by_range: k times remove_line(ln)
RemoveLines(t, ln, k) == IF k <= 0 THEN t ELSE RemoveLines(remove_line(t, ln), ln, k - 1)

\* remove_by_range, one line: the separator goes when end.col == line_len
JoinIfAtEnd(t, sl, at_end) ==
    IF ~TOk(t) THEN t
    ELSE IF at_end /\ total_lines(t) > 1 THEN remove_line_sep(t, sl)
    ELSE t

\* a char count one short of the inclusive span
InLineCountExclusive(sc, ec, ll) == Min(ec - sc, ll)

\* the char count remove_by_range removes from its one line
InLineCount(sc, ec, ll) == Min(ec - sc + 1, ll)

\* remove_by_range, start.line == end.line, the line ll chars long
RemoveInLine(t, sl, sc, ec, ll) ==
    IF ll < 0 \/ ec - sc < 0 THEN TFault(t)
    ELSE JoinIfAtEnd(remove_from_line(t, sl, sc, InLineCount(sc, ec, ll)), sl, ec = ll)

\* remove_by_range, start.line # end.line, the start line ll chars long
RemoveAcrossLines(t, sl, sc, el, ec, ll) ==
    IF ll < 0 \/ ll - sc < 0 THEN TFault(t)
    ELSE remove_line_sep(
             RemoveLines(remove_from_line(remove_from_line(t, sl, sc, ll - sc), el, 0, ec + 1),
                         sl + 1, el - (sl + 1)),
             sl)

\* TextBuffer::remove_by_range(start, end)
remove_by_range(t, sl, sc, el, ec) ==
    IF ~TOk(t) THEN t
    ELSE IF sl = el THEN RemoveInLine(t, sl, sc, ec, line_len(t, sl))
    ELSE RemoveAcrossLines(t, sl, sc, el, ec, line_len(t, sl))

\* TextBuffer::utf8_iter(pos): the index of the iterator it returns, pos.col calls
\* of next() behind the start of the line
utf8_iter(t, ln, col) == Utf8Skip(t.chars, get_one(t.lines, ln), col)

RECURSIVE Utf8RevSkipAfter(_, _, _)
\* the index of a Utf8RevIter after next() returned r and k more calls follow
Utf8RevSkipAfter(b, r, k) ==
    IF r.kind \notin {"some", "none"} THEN FAULT
    ELSE IF k <= 0 THEN r.index
    ELSE Utf8RevSkipAfter(b, Utf8RevIter_next(b, r.index), k - 1)

\* the index of a Utf8RevIter at `index` after k calls of next(), results dropped
Utf8RevSkip(b, index, k) ==
    IF k <= 0 \/ index < 0 THEN index ELSE Utf8RevSkipAfter(b, Utf8RevIter_next(b, index), k - 1)

\* utf8_rev_iter: the byte the reverse iterator starts at, the last one of the line
RevStart(t, ln) ==
    IF total_lines(t) < 1 THEN FAULT
    ELSE IF ln < total_lines(t) - 1 THEN SubOrFault(get_one(t.lines, ln + 1), 1)
    ELSE SubOrFault(len(t.chars), 1)

\* utf8_rev_iter, line_len = self.line_len(pos.line) + self.line_sep as usize known
RevIterFrom(t, line_len_sep, start, col) ==
    IF line_len_sep < 0 \/ start < 0 \/ line_len_sep - col - 1 < 0 THEN FAULT
    ELSE Utf8RevSkip(t.chars, start + 1, line_len_sep - col - 1)

\* line_len(line) + line_sep as usize
LineLenWithSep(ll, line_sep) == IF ll < 0 THEN FAULT ELSE ll + line_sep

\* TextBuffer::utf8_rev_iter(pos): the index of the iterator it returns
utf8_rev_iter(t, ln, col) ==
    RevIterFrom(t, LineLenWithSep(line_len(t, ln), t.line_sep), RevStart(t, ln), col)

(***************************************************************************)
(* The plain sequence the gap array stands for.                            *)
(***************************************************************************)
\* v with d inserted before logical index `index`
SeqInsert(v, index, d) == SubSeq(v, 1, index) \o d \o SubSeq(v, index + 1, Len(v))

\* v without the n elements from logical index `from` on
SeqRemove(v, from, n) == SubSeq(v, 1, from) \o SubSeq(v, from + n + 1, Len(v))

\* the value of a variable the running specification does not use
Idle == <<>>

(***************************************************************************)
(* The gap-array specification: GapBuffer::new, then in-range inserts and  *)
(* removes; ref is the plain sequence with the same edits applied.         *)
(***************************************************************************)
GapInit ==
    /\ \E v \in SeqsUpTo(Elems, MaxInit) : \E cap \in Len(v)..(Len(v) + ReserveSlack) :
          /\ gbuf = new(v, cap)
          /\ ref = v
    /\ last = [op |-> "new", grew |-> FALSE, moved |-> FALSE]
    /\ tb = Idle
    /\ it = Idle

GapInsert ==
    /\ gbuf.ok
    /\ \E index \in 0..len(gbuf) : \E d \in SeqsUpTo(Elems, MaxData) :
       \E slack \in Slacks(gbuf, Len(d)) :
          /\ len(gbuf) + Len(d) <= MaxLen
          /\ gbuf' = insert(gbuf, index, d, slack)
          /\ ref' = SeqInsert(ref, index, d)
          /\ last' = [op |-> "insert", grew |-> gbuf.gap_end - gbuf.gap_start < Len(d), moved |-> index # gbuf.gap_start]
    /\ UNCHANGED <<tb, it>>

GapRemove ==
    /\ gbuf.ok
    /\ \E from \in 0..len(gbuf) : \E n \in 0..(len(gbuf) - from) :
          /\ gbuf' = remove(gbuf, from, n)
          /\ ref' = SeqRemove(ref, from, n)
          /\ last' = [op |-> "remove", grew |-> FALSE,
                      moved |-> from < gbuf.gap_start /\ from + n > gbuf.gap_start
                                /\ gbuf.gap_end > gbuf.gap_start]
    /\ UNCHANGED <<tb, it>>

GapNext == GapInsert \/ GapRemove

GapSpec == GapInit /\ [][GapNext]_vars

(***************************************************************************)
(* The text-store specification: TextBuffer::from_data on a buffer of LF   *)
(* or CRLF separated lines, then edit operations with in-range arguments.  *)
(***************************************************************************)
\* the chars of the loaded lines: 'a' and the two-byte U+00E9
TextChars == {97, 233}

\* str::as_bytes of one char: its UTF-8 encoding
Utf8Encode(c) ==
    IF c < 128 THEN <<c>>
    ELSE IF c < 2048 THEN <<192 + (c \div 64), 128 + (c % 64)>>
    ELSE IF c < 65536 THEN <<224 + (c \div 4096), 128 + ((c \div 64) % 64), 128 + (c % 64)>>
    ELSE <<240 + (c \div 262144), 128 + ((c \div 4096) % 64), 128 + ((c \div 64) % 64),
           128 + (c % 64)>>

RECURSIVE Utf8EncodeAll(_)
\* str::as_bytes of a string given as its chars
Utf8EncodeAll(cs) == IF cs = <<>> THEN <<>> ELSE Utf8Encode(Head(cs)) \o Utf8EncodeAll(Tail(cs))

RECURSIVE JoinLines(_, _, _)
\* the bytes of a file of the lines ls (each a string of chars), separated by sep,
\* the last line ended by sep when trailing
JoinLines(ls, line_sep, trailing) ==
    IF ls = <<>> THEN <<>>
    ELSE Utf8EncodeAll(Head(ls))
         \o (IF Len(ls) > 1 \/ trailing THEN SepBytes(line_sep) ELSE <<>>)
         \o JoinLines(Tail(ls), line_sep, trailing)

\* the files the text-store specification loads
LoadedFiles ==
    {JoinLines(ls, sep, trailing) :
        ls \in SeqsUpTo(SeqsUpTo(TextChars, MaxLineLen), MaxInitLines),
        sep \in {LF, CRLF}, trailing \in BOOLEAN}

\* the strings Insert mode hands to insert_into_line: one typed char
TypedTexts == {Utf8Encode(c) : c \in TextChars}

NoOp == [op |-> "from_data", sl |-> 0, sc |-> 0, el |-> 0, ec |-> 0, steps |-> 0]

Did(name, sl, sc, el, ec) ==
    [op |-> name, sl |-> sl, sc |-> sc, el |-> el, ec |-> ec, steps |-> last.steps + 1]

TextInit ==
    /\ \E bytes \in LoadedFiles : \E slack \in 0..ReserveSlack :
          tb = from_data(bytes, slack, slack)
    /\ last = NoOp
    /\ gbuf = Idle
    /\ ref = Idle
    /\ it = Idle

\* whether a further edit may run
CanEdit == TOk(tb) /\ last.steps < MaxOps

\* the lines of tb
LineNos == 0..(total_lines(tb) - 1)

TbInsertIntoLine ==
    /\ CanEdit
    /\ \E ln \in LineNos : \E col \in 0..line_len(tb, ln) : \E d \in TypedTexts :
       \E slack \in 0..ReserveSlack :
          /\ len(tb.chars) + Len(d) <= MaxBytes
          /\ tb' = insert_into_line(tb, ln, col, d, slack)
          /\ last' = Did("insert_into_line", ln, col, ln, col)
    /\ UNCHANGED <<gbuf, ref, it>>

TbRemoveFromLine ==
    /\ CanEdit
    /\ \E ln \in LineNos : \E col \in 0..line_len(tb, ln) : \E n \in 1..(line_len(tb, ln) - col) :
          /\ tb' = remove_from_line(tb, ln, col, n)
          /\ last' = Did("remove_from_line", ln, col, ln, col + n - 1)
    /\ UNCHANGED <<gbuf, ref, it>>

TbInsertEmptyLine ==
    /\ CanEdit
    /\ \E row \in 0..total_lines(tb) : \E slack \in 0..ReserveSlack :
          /\ total_lines(tb) < MaxLines
          /\ len(tb.chars) + 2 * tb.line_sep <= MaxBytes
          /\ tb' = insert_empty_line(tb, row, slack)
          /\ last' = Did("insert_empty_line", row, 0, row, 0)
    /\ UNCHANGED <<gbuf, ref, it>>

TbRemoveLine ==
    /\ CanEdit
    /\ \E ln \in LineNos :
          /\ tb' = remove_line(tb, ln)
          /\ last' = Did("remove_line", ln, 0, ln, 0)
    /\ UNCHANGED <<gbuf, ref, it>>

TbRemoveLineSep ==
    /\ CanEdit
    /\ \E ln \in 0..(total_lines(tb) - 2) :
          /\ tb' = remove_line_sep(tb, ln)
          /\ last' = Did("remove_line_sep", ln, 0, ln, 0)
    /\ UNCHANGED <<gbuf, ref, it>>

TbSplitLine ==
    /\ CanEdit
    /\ \E ln \in LineNos : \E col \in 0..line_len(tb, ln) : \E slack \in 0..ReserveSlack :
          /\ total_lines(tb) < MaxLines
          /\ len(tb.chars) + tb.line_sep <= MaxBytes
          /\ tb' = split_line_at_index(tb, ln, col, slack)
          /\ last' = Did("split_line_at_index", ln, col, ln, col)
    /\ UNCHANGED <<gbuf, ref, it>>

TbRemoveByRange ==
    /\ CanEdit
    /\ \E sl \in LineNos : \E el \in LineNos :
       \E sc \in 0..line_len(tb, sl) : \E ec \in 0..line_len(tb, el) :
          /\ sl < el \/ (sl = el /\ sc <= ec)
          /\ tb' = remove_by_range(tb, sl, sc, el, ec)
          /\ last' = Did("remove_by_range", sl, sc, el, ec)
    /\ UNCHANGED <<gbuf, ref, it>>

TextNext ==
    \/ TbInsertIntoLine
    \/ TbRemoveFromLine
    \/ TbInsertEmptyLine
    \/ TbRemoveLine
    \/ TbRemoveLineSep
    \/ TbSplitLine
    \/ TbRemoveByRange

TextSpec == TextInit /\ [][TextNext]_vars

(***************************************************************************)
(* C1, C2: the gap array against the plain sequence.                       *)
(***************************************************************************)
\* "test data for myself", the vector of tests::test_remove
TestData == <<116, 101, 115, 116, 32, 100, 97, 116, 97, 32,
              102, 111, 114, 32, 109, 121, 115, 101, 108, 102>>

\* "test for myself"
TestForMyself == <<116, 101, 115, 116, 32, 102, 111, 114, 32, 109, 121, 115, 101, 108, 102>>

\* "test for elf"
TestForElf == <<116, 101, 115, 116, 32, 102, 111, 114, 32, 101, 108, 102>>

\* the logical content of b as every read operation returns it
ReadsAgree(b, v) ==
    /\ b.ok
    /\ len(b) = Len(v)
    /\ \A pos \in 0..(Len(v) - 1) : get_one(b, pos) = v[pos + 1]
    /\ \A s \in 0..Len(v) : get_to_end(b, s) = SubSeq(v, s + 1, Len(v))
    /\ \A s \in 0..Len(v) : \A e \in s..Len(v) : get_by_range(b, s, e) = SubSeq(v, s + 1, e)

\* C1: after GapBuffer::new and any in-range inserts and removes, len, get_one,
\* get_by_range and get_to_end read exactly the plain sequence with the same edits
\* applied (never a cell of the gap); and test_remove's example: "test data for
\* myself" reads "test for myself" after remove(5,5), "test for elf" after remove(9,3).
GapReadsMatchPlainSequence ==
    /\ ReadsAgree(gbuf, ref)
    /\ ReadsAgree(remove(new(TestData, 20), 5, 5), TestForMyself)
    /\ ReadsAgree(remove(remove(new(TestData, 20), 5, 5), 9, 3), TestForElf)

\* C1 witness: an insert at a position other than the gap's has just reallocated,
\* and the gap now lies strictly inside the storage with content on both sides
GapInsertGrewAwayFromGap ==
    /\ last.op = "insert" /\ last.grew /\ last.moved
    /\ gbuf.gap_start > 0 /\ gbuf.gap_start < gbuf.gap_end /\ gbuf.gap_end < Len(gbuf.data)

\* C2: gap_start <= gap_end <= data.len() in every reachable state, and the logical
\* length (that of the plain sequence) is data.len() - (gap_end - gap_start)
GapBoundsInvariant ==
    /\ gbuf.gap_start <= gbuf.gap_end
    /\ gbuf.gap_end <= Len(gbuf.data)
    /\ Len(ref) = Len(gbuf.data) - (gbuf.gap_end - gbuf.gap_start)

\* C2 witness: a remove whose span lay across the start of a non-empty gap has
\* just widened the gap on both sides
GapRemoveAcrossGap ==
    /\ last.op = "remove" /\ last.moved
    /\ gbuf.gap_start > 0 /\ gbuf.gap_end < Len(gbuf.data)

(***************************************************************************)
(* C3, C4, C5: the line-start table of the text store.                     *)
(***************************************************************************)
\* the bytes of the buffer, in order
Content(t) == get_to_end(t.chars, 0)

\* the line-start table, in order
Starts(t) == get_to_end(t.lines, 0)

\* the byte offsets immediately after a separator of bytes
SepEnds(bytes, line_sep) ==
    {i \in 1..Len(bytes) : EndsWith(SubSeq(bytes, 1, i), SepBytes(line_sep))}

\* whether starts is a line-start table of bytes: non-decreasing, first entry 0,
\* every later entry the offset immediately after a separator, and no separator
\* ending inside the line before it
TableOf(starts, bytes, line_sep) ==
    /\ Len(starts) >= 1 => starts[1] = 0
    /\ \A i \in 2..Len(starts) :
          /\ starts[i - 1] <= starts[i]
          /\ starts[i] \in SepEnds(bytes, line_sep)
          /\ \A k \in SepEnds(bytes, line_sep) : ~(starts[i - 1] < k /\ k < starts[i])

\* C3: after any sequence of in-range text-store operations the line-start table
\* is non-decreasing, its first entry is 0 and every entry i >= 1 is the byte
\* offset immediately after the separator that ends line i-1
LineTableInvariant == TOk(tb) => TableOf(Starts(tb), Content(tb), tb.line_sep)

\* C4: for every loaded buffer and after every sequence of edits, total_lines()
\* is the number of separators in the bytes plus one whenever the buffer is non-empty
LinesAreSeparatorsPlusOne ==
    (TOk(tb) /\ len(tb.chars) > 0)
        => total_lines(tb) = Cardinality(SepEnds(Content(tb), tb.line_sep)) + 1

\* C5: total_lines() >= 1 in every reachable state of a text store, right after
\* from_data (the empty input included) and after any sequence of edits
AlwaysOneLine == total_lines(tb) >= 1

(***************************************************************************)
(* C9, C10: remove_by_range against the lines of text it is to leave.      *)
(***************************************************************************)
\* the length of the UTF-8 sequence the lead byte b starts, 0 when it starts none
Utf8SeqLen(b) ==
    IF b >= 0 /\ b < 128 THEN 1
    ELSE IF b >= 192 /\ b < 224 THEN 2
    ELSE IF b >= 224 /\ b < 240 THEN 3
    ELSE IF b >= 240 /\ b < 248 THEN 4
    ELSE 0

\* the code point of the UTF-8 sequence bs
Utf8CodePoint(bs) ==
    IF Len(bs) = 1 THEN bs[1]
    ELSE IF Len(bs) = 2 THEN (bs[1] % 32) * 64 + (bs[2] % 64)
    ELSE IF Len(bs) = 3 THEN (bs[1] % 16) * 4096 + (bs[2] % 64) * 64 + (bs[3] % 64)
    ELSE (bs[1] % 8) * 262144 + (bs[2] % 64) * 4096 + (bs[3] % 64) * 64 + (bs[4] % 64)

RECURSIVE Utf8Decode(_)
\* the chars of the UTF-8 string bytes; FAULT ends it where bytes is no UTF-8
Utf8Decode(bytes) ==
    IF bytes = <<>> THEN <<>>
    ELSE IF Utf8SeqLen(Head(bytes)) = 0 \/ Utf8SeqLen(Head(bytes)) > Len(bytes) THEN <<FAULT>>
    ELSE <<Utf8CodePoint(SubSeq(bytes, 1, Utf8SeqLen(Head(bytes))))>>
         \o Utf8Decode(SubSeq(bytes, Utf8SeqLen(Head(bytes)) + 1, Len(bytes)))

\* the text of t as its reader sees it: the chars of line(0), line(1), ...
TextOf(t) == [i \in 1..total_lines(t) |-> Utf8Decode(line(t, i - 1))]

\* whether every '\n' of bytes belongs to a separator of the style line_sep and
\* every '\r' to a "\r\n"
UniformSeps(bytes, line_sep) ==
    \A i \in 1..Len(bytes) :
        /\ (bytes[i] = NL /\ line_sep = CRLF) => (i > 1 /\ bytes[i - 1] = CR)
        /\ bytes[i] = CR => (line_sep = CRLF /\ i < Len(bytes) /\ bytes[i + 1] = NL)

\* a text store no operation has left panicked, with a broken line-start table or
\* with half a separator or half a char
WellFormed(t) ==
    /\ TOk(t) /\ total_lines(t) >= 1
    /\ TableOf(Starts(t), Content(t), t.line_sep)
    /\ UniformSeps(Content(t), t.line_sep)
    /\ Utf8Valid(Content(t))

\* the lines txt without the columns sc..=ec of line sl; with ec one past the last
\* char of a line that has a next line, the two lines joined
WithoutSpan(txt, sl, sc, ec) ==
    IF ec < Len(txt[sl + 1]) \/ sl + 1 = Len(txt)
    THEN [txt EXCEPT ![sl + 1] = SeqRemove(txt[sl + 1], sc, ec - sc + 1)]
    ELSE SubSeq(txt, 1, sl)
         \o <<SubSeq(txt[sl + 1], 1, sc) \o txt[sl + 2]>>
         \o SubSeq(txt, sl + 3, Len(txt))

\* the lines txt with line sl cut at sc, joined to line el from column ec + 1 on,
\* the lines between them gone
WithoutLines(txt, sl, sc, el, ec) ==
    SubSeq(txt, 1, sl)
    \o <<SubSeq(txt[sl + 1], 1, sc) \o SubSeq(txt[el + 1], ec + 2, Len(txt[el + 1]))>>
    \o SubSeq(txt, el + 2, Len(txt))

\* C9: remove_by_range(start, end) on one line, start.col <= end.col, removes
\* exactly the columns start.col..=end.col of that line for every start.col; with
\* end.col at the end of a line that has a next line it also removes the separator
\* and one line-start entry, joining the two; every other char stays.  (The last of
\* several lines with end.col at its end, which has no next line to join, is not
\* judged.)
RemoveByRangeInLineRemovesSpan ==
    [][(/\ last'.op = "remove_by_range" /\ last'.sl = last'.el
        /\ WellFormed(tb)
        /\ ~(last'.sl + 1 = total_lines(tb) /\ total_lines(tb) > 1
             /\ last'.ec = line_len(tb, last'.sl)))
       => /\ TOk(tb')
          /\ TextOf(tb') = WithoutSpan(TextOf(tb), last'.sl, last'.sc, last'.ec)]_vars

\* C10: remove_by_range(start, end) with start.line < end.line leaves one line at
\* start.line, the start line's chars before start.col followed by the end line's
\* chars after end.col, total_lines reduced by end.line - start.line and every other
\* line unchanged, also with end.col one past the end line's last char
RemoveByRangeAcrossLinesJoins ==
    [][(/\ last'.op = "remove_by_range" /\ last'.sl < last'.el
        /\ WellFormed(tb))
       => /\ TOk(tb')
          /\ total_lines(tb') = total_lines(tb) - (last'.el - last'.sl)
          /\ TextOf(tb') = WithoutLines(TextOf(tb), last'.sl, last'.sc, last'.el, last'.ec)]_vars

(***************************************************************************)
(* The load-and-save specification: TextBuffer::from_data on a file, then  *)
(* the file written back raw line by raw line.  ref is the file loaded, it *)
(* the next line to write and the bytes written so far.                    *)
(***************************************************************************)
SaveInit ==
    /\ \E bytes \in LoadedFiles : \E slack \in 0..ReserveSlack :
          /\ tb = from_data(bytes, slack, slack)
          /\ ref = bytes
    /\ it = [line |-> 0, out |-> <<>>]
    /\ last = NoOp
    /\ gbuf = Idle

\* the bytes written once the raw line `raw` is written behind `out`
Written(out, raw) == IF raw = ReadPanic \/ out = ReadPanic THEN ReadPanic ELSE out \o raw

\* one line of the serialization: raw_line(it.line) written behind the lines before
SaveLine ==
    /\ it.line < total_lines(tb)
    /\ it.out # ReadPanic
    /\ it' = [line |-> it.line + 1, out |-> Written(it.out, raw_line(tb, it.line))]
    /\ UNCHANGED <<gbuf, ref, tb, last>>

SaveNext == SaveLine

SaveSpec == SaveInit /\ [][SaveNext]_vars

LeadChars ==
    {(b % 32) * 64 : b \in 194..223}
    \cup {2048} \cup {(b % 16) * 4096 : b \in 225..239}
    \cup {65536} \cup {(b % 8) * 262144 : b \in 241..244}

\* the chars of the buffers: 'a', '\n' and the chars above
IterChars == {97, NL} \cup LeadChars

\* the chars typed at the start of the buffer: 'a' and the two-byte U+00E9
TypedChars == {97, 233}

IterInit ==
    /\ \E cs \in SeqsUpTo(IterChars, MaxChars) : \E slack \in 0..ReserveSlack :
          /\ cs # <<>>
          /\ tb = from_data(Utf8EncodeAll(cs), slack, slack)
          /\ ref = cs
    /\ it = [phase |-> "loaded", index |-> 0, out |-> <<>>]
    /\ last = NoOp
    /\ gbuf = Idle

\* a char typed at line 0, column 0
IterType ==
    /\ it.phase = "loaded" /\ last.steps = 0
    /\ \E c \in TypedChars : \E slack \in 0..ReserveSlack :
          /\ tb' = insert_into_line(tb, 0, 0, Utf8Encode(c), slack)
          /\ ref' = <<c>> \o ref
          /\ last' = Did("insert_into_line", 0, 0, 0, 0)
    /\ UNCHANGED <<gbuf, it>>

\* buf.utf8_iter(LinePos { line: 0, col: 0 })
IterOpen ==
    /\ it.phase = "loaded" /\ TOk(tb)
    /\ it' = [phase |-> IF utf8_iter(tb, 0, 0) < 0 THEN "fault" ELSE "open",
              index |-> utf8_iter(tb, 0, 0), out |-> <<>>]
    /\ UNCHANGED <<gbuf, ref, tb, last>>

\* the iterator after next() returned r
IterAfter(i, r) ==
    IF r.kind = "some" THEN [phase |-> "open", index |-> r.index, out |-> Append(i.out, r.val)]
    ELSE IF r.kind = "none" THEN [i EXCEPT !.phase = "done"]
    ELSE [i EXCEPT !.phase = "fault"]

\* one turn of `for char in buf.utf8_iter(..)`
IterStep ==
    /\ it.phase = "open"
    /\ it' = IterAfter(it, Utf8Iter_next(tb.chars, it.index))
    /\ UNCHANGED <<gbuf, ref, tb, last>>

IterNext == IterType \/ IterOpen \/ IterStep

IterSpec == IterInit /\ [][IterNext]_vars

\* C7: on every buffer of valid UTF-8, chars of 1 to 4 bytes with every leading
\* byte of each length, utf8_iter(LinePos{line: 0, col: 0}) yields exactly the
\* chars of the buffer in order, across lines, to the end of the buffer
Utf8IterYieldsEveryChar ==
    /\ it.phase # "fault"
    /\ it.phase = "open" => it.out = SubSeq(ref, 1, Len(it.out))
    /\ it.phase = "done" => it.out = ref

(***************************************************************************)
(* The reverse-iterator specification: a file is loaded and                *)
(* utf8_rev_iter(pos) is run from a position on one of its lines to its    *)
(* first None.  ref is the chars of the file, it the iterator, the chars   *)
(* it yielded and the number of chars of the file up to and including pos. *)
(***************************************************************************)
\* the chars of the lines: one of each encoded length
WideChars == {97, 233, 8364, 128515}

\* the files the reverse-iterator specification loads
RevFiles ==
    {JoinLines(ls, sep, trailing) :
        ls \in SeqsUpTo(SeqsUpTo(WideChars, MaxLineLen), MaxInitLines),
        sep \in {LF, CRLF}, trailing \in BOOLEAN}

RevInit ==
    /\ \E bytes \in RevFiles : \E slack \in 0..ReserveSlack :
          /\ tb = from_data(bytes, slack, slack)
          /\ ref = Utf8Decode(bytes)
    /\ it = [phase |-> "loaded", index |-> 0, out |-> <<>>, upto |-> 0]
    /\ last = NoOp
    /\ gbuf = Idle

\* the number of chars of the buffer before line ln
CharsBefore(t, ln) == Len(Utf8Decode(get_by_range(t.chars, 0, get_one(t.lines, ln))))

\* buf.utf8_rev_iter(LinePos { line, col }) on a char of a line
RevOpen ==
    /\ it.phase = "loaded"
    /\ \E ln \in 0..(total_lines(tb) - 1) : \E col \in 0..(line_len(tb, ln) - 1) :
          /\ it' = [phase |-> IF utf8_rev_iter(tb, ln, col) < 0 THEN "fault" ELSE "open",
                    index |-> utf8_rev_iter(tb, ln, col), out |-> <<>>,
                    upto |-> CharsBefore(tb, ln) + col + 1]
          /\ last' = Did("utf8_rev_iter", ln, col, ln, col)
    /\ UNCHANGED <<gbuf, ref, tb>>

\* the iterator after next() returned r
RevAfter(i, r) ==
    IF r.kind = "some" THEN [i EXCEPT !.index = r.index, !.out = Append(i.out, r.val)]
    ELSE IF r.kind = "none" THEN [i EXCEPT !.phase = "done"]
    ELSE [i EXCEPT !.phase = "fault"]

\* one turn of `for char in buf.utf8_rev_iter(..)`
RevStep ==
    /\ it.phase = "open"
    /\ it' = RevAfter(it, Utf8RevIter_next(tb.chars, it.index))
    /\ UNCHANGED <<gbuf, ref, tb, last>>

RevNext == RevOpen \/ RevStep

RevSpec == RevInit /\ [][RevNext]_vars

\* C8: for every buffer and every position pos on one of its lines, the final line
\* without a trailing separator included, utf8_rev_iter(pos) yields the char at pos
\* first and then every char before it down to the start of the buffer: its output
\* reversed is the chars of the buffer up to and including pos
RevIterMirrorsForward ==
    /\ it.phase # "fault"
    /\ it.phase \in {"open", "done"} =>
          /\ Len(it.out) <= it.upto
          /\ \A k \in 1..Len(it.out) : it.out[k] = ref[it.upto - k + 1]
    /\ it.phase = "done" => Len(it.out) = it.upto

(***************************************************************************)
(* Single edits of the text store judged against the text before them.     *)
(***************************************************************************)
\* the byte length of the chars cs in UTF-8
Utf8ByteLen(cs) == Len(Utf8EncodeAll(cs))

UndoChars == {97, 233, 1024}

\* the files loaded
UndoFiles ==
    {JoinLines(ls, sep, trailing) :
        ls \in SeqsUpTo(SeqsUpTo(UndoChars, MaxLineLen), MaxInitLines),
        sep \in {LF, CRLF}, trailing \in BOOLEAN}

\* the separator-free strings inserted
InsertedStrings == SeqsUpTo(UndoChars, MaxChars) \ {<<>>}

\* the bytes, the line-start table and the line texts of t
Snapshot(t) == [chars |-> Content(t), lines |-> Starts(t), text |-> TextOf(t)]

UndoInit ==
    /\ \E bytes \in UndoFiles : \E slack \in 0..ReserveSlack :
          /\ tb = from_data(bytes, slack, slack)
          /\ ref = Snapshot(from_data(bytes, slack, slack))
    /\ it = [phase |-> "loaded", line |-> 0, col |-> 0, text |-> <<>>]
    /\ last = NoOp
    /\ gbuf = Idle

\* insert_into_line(line, col, s) with col <= line_len(line)
UndoInsert ==
    /\ it.phase = "loaded" /\ TOk(tb)
    /\ \E ln \in LineNos : \E col \in 0..line_len(tb, ln) : \E cs \in InsertedStrings :
       \E slack \in 0..ReserveSlack :
          /\ tb' = insert_into_line(tb, ln, col, Utf8EncodeAll(cs), slack)
          /\ it' = [phase |-> "inserted", line |-> ln, col |-> col, text |-> cs]
    /\ UNCHANGED <<gbuf, ref, last>>

\* remove_from_line(line, col, number of chars of s)
UndoRemove ==
    /\ it.phase = "inserted"
    /\ tb' = remove_from_line(tb, it.line, it.col, Len(it.text))
    /\ it' = [it EXCEPT !.phase = "removed"]
    /\ UNCHANGED <<gbuf, ref, last>>

UndoNext == UndoInsert \/ UndoRemove

UndoSpec == UndoInit /\ [][UndoNext]_vars

\* C12: insert_into_line(line, col, s) with col <= line_len(line) and s free of
\* separators, followed by remove_from_line(line, col, chars of s), restores the
\* text of every line, the byte length (the bytes themselves) and the line-start
\* table, multi-byte chars allowed in s and in the line
InsertThenRemoveRestores ==
    it.phase = "removed"
        => /\ TOk(tb)
           /\ TextOf(tb) = ref.text
           /\ Content(tb) = ref.chars
           /\ Starts(tb) = ref.lines

\* whether line i of t ends with the separator of t
EndsWithSep(t, i) == raw_line(t, i) # ReadPanic /\ EndsWith(raw_line(t, i), SepBytes(t.line_sep))

\* whether every char of line i of t is one byte long
SingleByteLine(t, i) == \A k \in 1..Len(line(t, i)) : line(t, i)[k] < 128

\* C13 as stated: for every line i that ends with a separator raw_line_len(i) is
\* line_len(i) + 1 in an LF buffer and line_len(i) + 2 in a CRLF buffer, and for
\* the last line without a separator raw_line_len(i) = line_len(i)
RawLineLenIsLineLenPlusSep ==
    TOk(tb) => \A i \in LineNos :
        /\ EndsWithSep(tb, i) => raw_line_len(tb, i) = line_len(tb, i) + tb.line_sep
        /\ (~EndsWithSep(tb, i) /\ i = total_lines(tb) - 1)
              => raw_line_len(tb, i) = line_len(tb, i)

\* C13 amended: raw_line_len(i) counts bytes and line_len(i) chars.  For every line
\* i that ends with a separator line_len(i) does not count the separator (it is at
\* most the number of chars of line(i)) and raw_line_len(i) is the byte length of
\* line(i) plus 1 (LF) or 2 (CRLF), which is line_len(i) + 1 or + 2 when every char
\* of the line is one byte long; for the last line without a separator
\* raw_line_len(i) is the byte length of line(i), line_len(i) for one-byte chars
RawLineLenIsBytesPlusSep ==
    TOk(tb) => \A i \in LineNos :
        /\ line_len(tb, i) >= 0 /\ line_len(tb, i) <= Len(Utf8Decode(line(tb, i)))
        /\ EndsWithSep(tb, i)
              => /\ raw_line_len(tb, i) = Len(line(tb, i)) + tb.line_sep
                 /\ SingleByteLine(tb, i) => raw_line_len(tb, i) = line_len(tb, i) + tb.line_sep
        /\ (~EndsWithSep(tb, i) /\ i = total_lines(tb) - 1)
              => /\ raw_line_len(tb, i) = Len(line(tb, i))
                 /\ SingleByteLine(tb, i) => raw_line_len(tb, i) = line_len(tb, i)

\* C13 witness: a CRLF buffer whose first line ends with the separator and holds
\* one two-byte char, and whose last line has a one-byte char and no separator
CrlfLineOfTwoByteChar ==
    /\ TOk(tb) /\ tb.line_sep = CRLF /\ total_lines(tb) = 2
    /\ EndsWithSep(tb, 0) /\ line(tb, 0) = Utf8Encode(233)
    /\ raw_line_len(tb, 0) = 4 /\ line_len(tb, 0) = 1
    /\ ~EndsWithSep(tb, 1) /\ line(tb, 1) = <<97>>

(***************************************************************************)
(* The vim-style command grammar of src/src/vim_commands.rs.  A char is    *)
(* its code point.  A Motion is [action, object, modifier]; an absent      *)
(* Action or Object is "None", a Modifier is [kind, n] with n the count of *)
(* Modifier::Count and 0 otherwise.                                        *)
(***************************************************************************)
\* the code point of an ASCII char, named by the char
Ch(c) ==
    CASE c = "$" -> 36 [] c = "/" -> 47 [] c = "0" -> 48 [] c = "1" -> 49 [] c = "2" -> 50
      [] c = "9" -> 57 [] c = ":" -> 58 [] c = "G" -> 71 [] c = "N" -> 78 [] c = "V" -> 86
      [] c = "W" -> 87 [] c = "_" -> 95 [] c = "a" -> 97 [] c = "b" -> 98 [] c = "d" -> 100
      [] c = "e" -> 101 [] c = "f" -> 102 [] c = "g" -> 103 [] c = "h" -> 104 [] c = "i" -> 105
      [] c = "j" -> 106 [] c = "k" -> 107 [] c = "l" -> 108 [] c = "n" -> 110 [] c = "o" -> 111
      [] c = "q" -> 113 [] c = "r" -> 114 [] c = "t" -> 116 [] c = "v" -> 118 [] c = "w" -> 119
      [] c = "x" -> 120 [] c = "z" -> 122 [] c = " " -> 32 [] c = "." -> 46

\* char::is_whitespace on the chars of the model: ' ', '\t', '\n', the other
\* ASCII controls 0x0B..0x0D, U+0085 and U+00A0
is_whitespace(c) == c \in {32, 133, 160} \cup (9..13)

\* char::is_alphanumeric on the chars of the model: ASCII digits and letters, the
\* letters of Latin-1 and the letters U+0370..U+07FF stand for the Unicode classes
is_alphanumeric(c) ==
    \/ c \in 48..57 \/ c \in 65..90 \/ c \in 97..122
    \/ c \in {170, 181, 186} \/ (c \in 192..255 /\ c \notin {215, 247})
    \/ c \in 880..2047

\* vim_commands::is_letter
is_letter(c) == is_alphanumeric(c) \/ c = 95

\* vim_commands::is_special
is_special(c) == ~(is_whitespace(c) \/ is_alphanumeric(c) \/ c = 95)

\* Modifier values.  The u32 of Modifier::Count is kept in two decimal limbs,
\* hi * Limb + n, each within the integers of the model checker
Limb == 100000

NoModifier == [kind |-> "None", n |-> 0, hi |-> 0]

Around == [kind |-> "Around", n |-> 0, hi |-> 0]

Inside == [kind |-> "Inside", n |-> 0, hi |-> 0]

Count(n) == [kind |-> "Count", n |-> n, hi |-> 0]

\* u32::MAX = 4294967295 in limbs
U32MaxHi == 42949

U32MaxLo == 67295

\* whether hi * Limb + lo is beyond u32
BeyondU32(hi, lo) == hi > U32MaxHi \/ (hi = U32MaxHi /\ lo > U32MaxLo)

RECURSIVE WrapU32(_, _)
\* hi * Limb + lo modulo 2^32, in limbs
WrapU32(hi, lo) ==
    IF ~BeyondU32(hi, lo) THEN [hi |-> hi, n |-> lo]
    ELSE IF lo >= U32MaxLo + 1 THEN WrapU32(hi - U32MaxHi, lo - (U32MaxLo + 1))
    ELSE WrapU32(hi - U32MaxHi - 1, lo + Limb - (U32MaxLo + 1))

\* the Count whose limbs are hi and lo: beyond u32 the arithmetic of parse panics
\* in a debug build and wraps in a release build; the modifier is then of kind
\* "Overflow" and holds the wrapped value
CountOf(hi, lo) ==
    IF BeyondU32(hi, lo)
    THEN [kind |-> "Overflow", n |-> WrapU32(hi, lo).n, hi |-> WrapU32(hi, lo).hi]
    ELSE [kind |-> "Count", n |-> lo, hi |-> hi]

\* Count(n * 10 + d) for the count c
CountTimesTen(c, d) ==
    CountOf(c.hi * 10 + ((c.n * 10 + d) \div Limb), (c.n * 10 + d) % Limb)

\* the count c as a number of steps or a line number: a count of Limb or more
\* exceeds every buffer of the model and acts as Limb
CountValue(c) == IF c.hi > 0 THEN Limb ELSE c.n

\* Motion::new
Motion_new == [action |-> "None", object |-> "None", modifier |-> NoModifier]

\* a clear that empties the object only
Motion_clearObjectOnly(m) == [m EXCEPT !.object = "None"]

\* Motion::clear
Motion_clear(m) == [m EXCEPT !.action = "None", !.object = "None", !.modifier = NoModifier]

\* Motion::parse, the arms 'a' and 'i': a modifier in Visual mode or behind d,
\* else the object obj
ParseAroundInside(m, modifier, obj, current_mode) ==
    IF current_mode = "Visual" \/ m.action = "Delete"
    THEN [m EXCEPT !.modifier = modifier]
    ELSE [m EXCEPT !.object = obj]

\* Motion::parse, the arms '0'..'9'
ParseDigit(m, char) ==
    IF char = 48
    THEN IF m.modifier.kind = "Count"
         THEN [m EXCEPT !.modifier = CountTimesTen(m.modifier, 0)]
         ELSE [m EXCEPT !.object = "LineStart"]
    ELSE IF m.modifier.kind = "Count"
    THEN [m EXCEPT !.modifier = CountTimesTen(m.modifier, char - 48)]
    ELSE [m EXCEPT !.modifier = Count(char - 48)]

\* Motion::parse, the arm 'd'
ParseD(m, current_mode) ==
    IF m.action = "Delete" THEN [m EXCEPT !.object = "Line"]
    ELSE IF current_mode \in {"Visual", "VisualLine"}
    THEN [m EXCEPT !.action = "Delete", !.object = "VisualSelection"]
    ELSE [m EXCEPT !.action = "Delete"]

\* Motion::parse, the arm 'g'
ParseG(m) ==
    IF m.action = "Goto" THEN [m EXCEPT !.object = "Line"] ELSE [m EXCEPT !.action = "Goto"]

\* Motion::parse
Motion_parse(m, char, current_mode) ==
    CASE char = 36 -> [m EXCEPT !.object = "LineEnd"]
      [] char \in 48..57 -> ParseDigit(m, char)
      [] char = 97 -> ParseAroundInside(m, Around, "Append", current_mode)
      [] char = 98 -> [m EXCEPT !.object = "BackWord"]
      [] char = 100 -> ParseD(m, current_mode)
      [] char = 101 -> [m EXCEPT !.object = "WordEnd"]
      [] char = 103 -> ParseG(m)
      [] char = 71 -> [m EXCEPT !.object = "Line", !.action = "GOTO"]
      [] char = 104 -> [m EXCEPT !.object = "Left"]
      [] char = 105 -> ParseAroundInside(m, Inside, "Insert", current_mode)
      [] char = 106 -> [m EXCEPT !.object = "Down"]
      [] char = 107 -> [m EXCEPT !.object = "Up"]
      [] char = 108 -> [m EXCEPT !.object = "Right"]
      [] char = 110 -> [m EXCEPT !.object = "NextSearchResult"]
      [] char = 78 -> [m EXCEPT !.object = "PreviousSearchResult"]
      [] char = 118 -> [m EXCEPT !.object = "VisualMode"]
      [] char = 86 -> [m EXCEPT !.object = "VisualLineMode"]
      [] char = 119 -> [m EXCEPT !.object = "Word"]
      [] char = 87 -> [m EXCEPT !.object = "WORD"]
      [] char = 120 -> [m EXCEPT !.action = "Delete", !.object = "CharUnderCursor"]
      [] char = 58 -> [m EXCEPT !.object = "CommandBarMode"]
      [] char = 47 -> [m EXCEPT !.object = "SearchMode"]
      [] OTHER -> m

(***************************************************************************)
(* The target lookups of src/src/vim_commands.rs.  A LinePos is            *)
(* [line, col]; Option::None is NonePos, a lookup that panics or meets an  *)
(* undefined step of an iterator is FaultPos.                              *)
(***************************************************************************)
Pos(ln, col) == [line |-> ln, col |-> col]

NonePos == [line |-> -1, col |-> -1]

FaultPos == [line |-> FAULT, col |-> FAULT]

\* the chars a loop over buf.utf8_iter(pos) sees
CharsFrom(t, pos) ==
    IF pos.line < 0 \/ pos.col < 0 THEN <<FAULT>>
    ELSE Utf8Chars(t.chars, utf8_iter(t, pos.line, pos.col))

\* the break conditions of the three loops that look for the next word start: the
\* loop behind a letter, the loop behind another char, the loop of WORD
NextStartFound(loop, char, found_whitespace) ==
    CASE loop = "letter" ->
            \/ (~is_alphanumeric(char) /\ char # 32 /\ char # 95)
            \/ (found_whitespace /\ (is_alphanumeric(char) \/ char = 95))
      [] loop = "other" -> (found_whitespace /\ ~is_whitespace(char)) \/ is_alphanumeric(char)
      [] loop = "WORD" -> found_whitespace /\ ~is_whitespace(char)

RECURSIVE NextStartLoop(_, _, _, _, _, _)
\* `for char in iter` of find_next_word_start / find_next_WORD_start over the chars
\* cs, with line_add, col and found_whitespace as they stand
NextStartLoop(loop, cs, ln, line_add, col, found_whitespace) ==
    IF cs = <<>> THEN NonePos
    ELSE IF Head(cs) = FAULT THEN FaultPos
    ELSE IF Head(cs) = NL THEN NextStartLoop(loop, Tail(cs), ln, line_add + 1, -1, TRUE)
    ELSE IF NextStartFound(loop, Head(cs), found_whitespace \/ is_whitespace(Head(cs)))
    THEN Pos(ln + line_add, col + 1)
    ELSE NextStartLoop(loop, Tail(cs), ln, line_add, col + 1,
                       found_whitespace \/ is_whitespace(Head(cs)))

\* find_next_word_start, the chars from the cursor on being cs
NextWordStartIn(cs, cursor) ==
    IF cs = <<>> THEN NonePos
    ELSE IF Head(cs) = FAULT THEN FaultPos
    ELSE IF is_alphanumeric(Head(cs)) \/ Head(cs) = 95
    THEN NextStartLoop("letter", Tail(cs), cursor.line, 0, cursor.col, FALSE)
    ELSE NextStartLoop("other", Tail(cs), cursor.line,
                       IF Head(cs) = NL THEN 1 ELSE 0, cursor.col,
                       Head(cs) = NL \/ is_whitespace(Head(cs)))

\* vim_commands::find_next_word_start
find_next_word_start(cursor, t) == NextWordStartIn(CharsFrom(t, cursor), cursor)

\* find_next_WORD_start, the chars from the cursor on being cs
NextWORDStartIn(cs, cursor) ==
    IF cs = <<>> THEN NonePos
    ELSE IF Head(cs) = FAULT THEN FaultPos
    ELSE NextStartLoop("WORD", Tail(cs), cursor.line,
                       IF Head(cs) = NL THEN 1 ELSE 0, cursor.col, Head(cs) = NL)

\* vim_commands::find_next_WORD_start
find_next_WORD_start(cursor, t) == NextWORDStartIn(CharsFrom(t, cursor), cursor)

RECURSIVE Utf8RevCharsAfter(_, _)
\* the chars a `for char in iter` loop over a Utf8RevIter sees once next() returned r
Utf8RevCharsAfter(b, r) ==
    IF r.kind = "some" THEN <<r.val>> \o Utf8RevCharsAfter(b, Utf8RevIter_next(b, r.index))
    ELSE IF r.kind = "none" THEN <<>>
    ELSE <<FAULT>>

\* the chars a loop over a Utf8RevIter at `index` sees
Utf8RevChars(b, index) ==
    IF index < 0 THEN <<FAULT>> ELSE Utf8RevCharsAfter(b, Utf8RevIter_next(b, index))

\* the chars a loop over buf.utf8_rev_iter(pos) sees
RevCharsFrom(t, pos) ==
    IF pos.line < 0 \/ pos.col < 0 THEN <<FAULT>>
    ELSE Utf8RevChars(t.chars, utf8_rev_iter(t, pos.line, pos.col))

\* looking_for_letter, looking_for_whitespace, looking_for_special as
\* find_current_word_start / _end set them at the char under the cursor
LookingFor(char) ==
    IF is_letter(char) THEN [letter |-> FALSE, whitespace |-> TRUE, special |-> TRUE]
    ELSE IF is_whitespace(char) THEN [letter |-> TRUE, whitespace |-> FALSE, special |-> TRUE]
    ELSE [letter |-> TRUE, whitespace |-> TRUE, special |-> FALSE]

\* looking_for_whitespace of find_current_WORD_start / _end, as the same record
LookingForWORD(char) ==
    IF is_whitespace(char) THEN [letter |-> TRUE, whitespace |-> FALSE, special |-> TRUE]
    ELSE [letter |-> FALSE, whitespace |-> TRUE, special |-> FALSE]

\* whether the char ends the run the lookup walks: it is of a class looked for
EndsRun(looking, char, WORD) ==
    IF WORD
    THEN (looking.whitespace /\ is_whitespace(char)) \/ (~looking.whitespace /\ ~is_whitespace(char))
    ELSE \/ (looking.letter /\ is_letter(char))
         \/ (looking.whitespace /\ is_whitespace(char))
         \/ (looking.special /\ is_special(char))

RECURSIVE CurrentStartLoop(_, _, _, _)
\* the loop of find_current_word_start / find_current_WORD_start: the col it ends with
CurrentStartLoop(cs, col, looking, WORD) ==
    IF cs = <<>> THEN col
    ELSE IF Head(cs) = FAULT THEN FAULT
    ELSE IF Head(cs) = CR \/ Head(cs) = NL THEN col
    ELSE IF EndsRun(looking, Head(cs), WORD) THEN col + 1
    ELSE IF col = 0 THEN col
    ELSE CurrentStartLoop(Tail(cs), col - 1, looking, WORD)

\* find_current_word_start / find_current_WORD_start over the chars cs
CurrentStartIn(cs, cursor, WORD) ==
    IF cs = <<>> THEN cursor
    ELSE IF Head(cs) = FAULT THEN FaultPos
    ELSE IF WORD
    THEN Pos(cursor.line, CurrentStartLoop(cs, cursor.col, LookingForWORD(Head(cs)), TRUE))
    ELSE Pos(cursor.line, CurrentStartLoop(cs, cursor.col, LookingFor(Head(cs)), FALSE))

\* vim_commands::find_current_word_start
find_current_word_start(cursor, t) == CurrentStartIn(RevCharsFrom(t, cursor), cursor, FALSE)

\* vim_commands::find_current_WORD_start
find_current_WORD_start(cursor, t) == CurrentStartIn(RevCharsFrom(t, cursor), cursor, TRUE)

RECURSIVE CurrentEndLoop(_, _, _, _)
\* the loop of find_current_word_end / find_current_WORD_end: the col it ends with
CurrentEndLoop(cs, col, looking, WORD) ==
    IF cs = <<>> THEN col
    ELSE IF Head(cs) = FAULT THEN FAULT
    ELSE IF Head(cs) = CR \/ Head(cs) = NL THEN col
    ELSE IF EndsRun(looking, Head(cs), WORD) THEN col
    ELSE CurrentEndLoop(Tail(cs), col + 1, looking, WORD)

\* if col == 0 { return None }; col -= 1
EndBefore(ln, col) ==
    IF col = FAULT THEN FaultPos ELSE IF col = 0 THEN NonePos ELSE Pos(ln, col - 1)

\* find_current_word_end / find_current_WORD_end over the chars cs
CurrentEndIn(cs, cursor, WORD) ==
    IF cs = <<>> THEN EndBefore(cursor.line, cursor.col)
    ELSE IF Head(cs) = FAULT THEN FaultPos
    ELSE IF WORD
    THEN EndBefore(cursor.line, CurrentEndLoop(cs, cursor.col, LookingForWORD(Head(cs)), TRUE))
    ELSE EndBefore(cursor.line, CurrentEndLoop(cs, cursor.col, LookingFor(Head(cs)), FALSE))

\* vim_commands::find_current_word_end
find_current_word_end(cursor, t) == CurrentEndIn(CharsFrom(t, cursor), cursor, FALSE)

\* vim_commands::find_current_WORD_end
find_current_WORD_end(cursor, t) == CurrentEndIn(CharsFrom(t, cursor), cursor, TRUE)

\* found, looking_for_letter, looking_for_special as find_previous_word_start and
\* find_next_word_end set them at the first char
WordRun(char) ==
    IF is_whitespace(char) THEN [found |-> FALSE, letter |-> TRUE, special |-> TRUE]
    ELSE IF is_letter(char) THEN [found |-> TRUE, letter |-> TRUE, special |-> FALSE]
    ELSE [found |-> TRUE, letter |-> FALSE, special |-> TRUE]

\* the two `if !found && ..` of the loops: the run may start at this char
WordRunAt(run, char) ==
    IF ~run.found /\ run.letter /\ is_letter(char)
    THEN [found |-> TRUE, letter |-> TRUE, special |-> FALSE]
    ELSE IF ~run.found /\ run.special /\ is_special(char)
    THEN [found |-> TRUE, letter |-> FALSE, special |-> TRUE]
    ELSE run

\* the two `if found && ..` of the loops: the run ends before this char
WordRunEnds(run, char) ==
    \/ (run.found /\ run.letter /\ ~is_letter(char))
    \/ (run.found /\ run.special /\ ~is_special(char))

RECURSIVE PreviousStartLoop(_, _, _, _, _)
\* `for char in iter` of find_previous_word_start
PreviousStartLoop(t, cs, ln, col, run) ==
    IF col < 0 THEN FaultPos
    ELSE IF cs = <<>> THEN Pos(ln, col)
    ELSE IF Head(cs) = FAULT THEN FaultPos
    ELSE IF Head(cs) = NL
    THEN IF run.found THEN Pos(ln, col)
         ELSE IF ln = 0 THEN FaultPos
         ELSE PreviousStartLoop(t, Tail(cs), ln - 1, line_len(t, ln - 1), run)
    ELSE IF Head(cs) = CR THEN PreviousStartLoop(t, Tail(cs), ln, col, run)
    ELSE IF WordRunEnds(WordRunAt(run, Head(cs)), Head(cs)) THEN Pos(ln, col)
    ELSE PreviousStartLoop(t, Tail(cs), ln, col - 1, WordRunAt(run, Head(cs)))

\* find_previous_word_start from the char at (ln, col), the chars from there
\* backwards being cs
PreviousStartIn(t, cs, ln, col) ==
    IF cs = <<>> THEN NonePos
    ELSE IF Head(cs) = FAULT THEN FaultPos
    ELSE PreviousStartLoop(t, Tail(cs), ln, col, WordRun(Head(cs)))

\* find_previous_word_start, the char before the cursor at (ln, col)
PreviousStartFrom(t, ln, col) ==
    IF col < 0 THEN FaultPos ELSE PreviousStartIn(t, RevCharsFrom(t, Pos(ln, col)), ln, col)

\* vim_commands::find_previous_word_start
find_previous_word_start(cursor, t) ==
    IF cursor.col > 0 THEN PreviousStartFrom(t, cursor.line, cursor.col - 1)
    ELSE IF cursor.line = 0 THEN NonePos
    ELSE PreviousStartFrom(t, cursor.line - 1, line_len(t, cursor.line - 1))

RECURSIVE NextEndLoop(_, _, _, _)
\* `for char in iter` of find_next_word_end
NextEndLoop(cs, ln, col, run) ==
    IF cs = <<>> THEN Pos(ln, col)
    ELSE IF Head(cs) = FAULT THEN FaultPos
    ELSE IF Head(cs) = NL
    THEN IF run.found THEN Pos(ln, col) ELSE NextEndLoop(Tail(cs), ln + 1, 0, run)
    ELSE IF Head(cs) = CR THEN NextEndLoop(Tail(cs), ln, col, run)
    ELSE IF WordRunEnds(WordRunAt(run, Head(cs)), Head(cs)) THEN Pos(ln, col)
    ELSE NextEndLoop(Tail(cs), ln, col + 1, WordRunAt(run, Head(cs)))

\* find_next_word_end from the char at (ln, col), the chars from there on being cs
NextEndIn(cs, ln, col) ==
    IF cs = <<>> THEN NonePos
    ELSE IF Head(cs) = FAULT THEN FaultPos
    ELSE IF Head(cs) = NL THEN NextEndLoop(Tail(cs), ln + 1, 0, WordRun(Head(cs)))
    ELSE NextEndLoop(Tail(cs), ln, col, WordRun(Head(cs)))

\* find_next_word_end, the line of the cursor line_len chars long
NextEndFrom(t, cursor, ll) ==
    IF ll < 0 THEN FaultPos
    ELSE IF cursor.col + 1 < ll
    THEN NextEndIn(CharsFrom(t, Pos(cursor.line, cursor.col + 1)), cursor.line, cursor.col + 1)
    ELSE IF total_lines(t) < 1 THEN FaultPos
    ELSE IF cursor.line = total_lines(t) - 1 THEN NonePos
    ELSE NextEndIn(CharsFrom(t, Pos(cursor.line + 1, 0)), cursor.line + 1, 0)

\* vim_commands::find_next_word_end
find_next_word_end(cursor, t) == NextEndFrom(t, cursor, line_len(t, cursor.line))

\* the lookups handed to vim_commands::count, by name
Find(f, cursor, t) ==
    CASE f = "find_next_word_start" -> find_next_word_start(cursor, t)
      [] f = "find_next_WORD_start" -> find_next_WORD_start(cursor, t)
      [] f = "find_next_word_end" -> find_next_word_end(cursor, t)

RECURSIVE CountLoop(_, _, _, _, _, _)
\* the loop of vim_commands::count with n turns left, pos what f returned this turn
CountLoop(cursor, t, n, f, last_pos, pos) ==
    IF pos = NonePos THEN last_pos
    ELSE IF pos = FaultPos THEN FaultPos
    ELSE IF n <= 1 THEN pos
    ELSE CountLoop(pos, t, n - 1, f, pos, Find(f, pos, t))

\* vim_commands::count
count(cursor, t, n, f) ==
    IF n <= 0 THEN NonePos ELSE CountLoop(cursor, t, n, f, NonePos, Find(f, cursor, t))

(***************************************************************************)
(* The Editor of src/src/editor.rs with its one buffer and cursor:         *)
(* [buf, x, y, wanted_x, mode, motion, visual_range_anchor,                *)
(*  command_bar_input, search_results, cmd_bar_cursor_x, ok].  The cursor  *)
(* is 1-indexed (CursorPos of src/src/main.rs); ok is FALSE once a handler *)
(* has panicked.                                                           *)
(***************************************************************************)
\* whether no handler has panicked on e
EdOk(e) == e.ok /\ TOk(e.buf)

\* e after a panic
EdFault(e) == [e EXCEPT !.ok = FALSE]

\* CursorPos::to_linepos
to_linepos(e) == IF e.x < 1 \/ e.y < 1 THEN FaultPos ELSE Pos(e.y - 1, e.x - 1)

\* a from_linepos that drags the visual anchor along
from_lineposWithAnchor(e, pos) ==
    IF pos.line < 0 \/ pos.col < 0 THEN EdFault(e)
    ELSE [e EXCEPT !.x = pos.col + 1, !.y = pos.line + 1, !.wanted_x = pos.col + 1,
                   !.visual_range_anchor = pos]

\* CursorPos::from_linepos
from_linepos(e, pos) ==
    IF pos.line < 0 \/ pos.col < 0 THEN EdFault(e)
    ELSE [e EXCEPT !.x = pos.col + 1, !.y = pos.line + 1, !.wanted_x = pos.col + 1]

\* e with its buffer replaced by b
WithBuf(e, b) == [e EXCEPT !.buf = b, !.ok = e.ok /\ TOk(b)]

\* LinePos::cmp
PosLess(p, q) == p.line < q.line \/ (p.line = q.line /\ p.col < q.col)

\* Ord::min and Ord::max of two LinePos
PosMin(p, q) == IF PosLess(q, p) THEN q ELSE p

PosMax(p, q) == IF PosLess(q, p) THEN p ELSE q

\* Object::BackWord, the lookup having returned pos
ExecBackWordTo(e, cursor, pos) ==
    IF pos = NonePos THEN e
    ELSE IF pos = FaultPos THEN EdFault(e)
    ELSE IF e.motion.action = "Delete"
    THEN from_linepos(WithBuf(e, remove_by_range(e.buf, pos.line, pos.col, cursor.line, cursor.col)), pos)
    ELSE from_linepos(e, pos)

\* Object::BackWord
ExecBackWord(e, cursor) == ExecBackWordTo(e, cursor, find_previous_word_start(cursor, e.buf))

\* current_cursor.x = ((start.col + 1).min(buffer.line_len(cursor.line))).max(1);
\* current_cursor.wanted_x = current_cursor.x
CursorToStart(e, start, ll) ==
    IF ll < 0 THEN EdFault(e)
    ELSE [e EXCEPT !.x = Max(Min(start.col + 1, ll), 1), !.wanted_x = Max(Min(start.col + 1, ll), 1)]

\* Object::Word with Modifier::Inside, the lookups having returned start and end
ExecInsideWordAt(e, cursor, start, end) ==
    IF start = FaultPos \/ end = FaultPos THEN EdFault(e)
    ELSE IF start = NonePos \/ end = NonePos THEN e
    ELSE IF e.motion.action = "Delete"
    THEN IF end.col - start.col < 0 THEN EdFault(e)
         ELSE CursorToStart(
                  WithBuf(e, remove_from_line(e.buf, cursor.line, start.col, end.col - start.col + 1)),
                  start,
                  line_len(remove_from_line(e.buf, cursor.line, start.col, end.col - start.col + 1),
                           cursor.line))
    ELSE IF e.mode = "Visual"
    THEN from_linepos([e EXCEPT !.visual_range_anchor = start], end)
    ELSE e

\* Object::WORD with Modifier::Inside, the lookups having returned start and end
ExecInsideWORDAt(e, cursor, start, end) ==
    IF start = FaultPos \/ end = FaultPos THEN EdFault(e)
    ELSE IF start = NonePos \/ end = NonePos THEN e
    ELSE IF e.motion.action = "Delete"
    THEN CursorToStart(
             WithBuf(e, remove_by_range(e.buf, start.line, start.col, end.line, end.col)),
             start,
             line_len(remove_by_range(e.buf, start.line, start.col, end.line, end.col), cursor.line))
    ELSE IF e.mode = "Visual"
    THEN from_linepos([e EXCEPT !.visual_range_anchor = start], end)
    ELSE e

\* the end of a word delete: the position before pos, the end of the previous line
\* when pos is at column 0
BeforeLanding(t, pos) ==
    IF pos.col > 0 THEN Pos(pos.line, pos.col - 1)
    ELSE IF pos.line = 0 THEN FaultPos
    ELSE Pos(pos.line - 1, line_len(t, pos.line - 1))

\* buffer.remove_by_range(cursor, pos)
RemoveTo(e, cursor, pos) ==
    IF pos.line < 0 \/ pos.col < 0 THEN EdFault(e)
    ELSE WithBuf(e, remove_by_range(e.buf, cursor.line, cursor.col, pos.line, pos.col))

\* a dispatch that, finding no next word, still deletes the char under the cursor
ExecNextStartToOrChar(e, cursor, pos) ==
    IF pos = NonePos
    THEN IF e.motion.action = "Delete" THEN RemoveTo(e, cursor, cursor) ELSE e
    ELSE IF pos = FaultPos THEN EdFault(e)
    ELSE IF e.motion.action = "Delete" THEN RemoveTo(e, cursor, BeforeLanding(e.buf, pos))
    ELSE from_linepos(e, pos)

\* Object::Word / Object::WORD without Inside, the lookup having returned pos
ExecNextStartTo(e, cursor, pos) ==
    IF pos = NonePos THEN e
    ELSE IF pos = FaultPos THEN EdFault(e)
    ELSE IF e.motion.action = "Delete" THEN RemoveTo(e, cursor, BeforeLanding(e.buf, pos))
    ELSE from_linepos(e, pos)

\* the lookup f, repeated when the modifier is a Count
FindCounted(e, cursor, f) ==
    IF e.motion.modifier.kind = "Count"
    THEN count(cursor, e.buf, CountValue(e.motion.modifier), f)
    ELSE Find(f, cursor, e.buf)

\* Object::Word
ExecWord(e, cursor) ==
    IF e.motion.modifier = Inside
    THEN ExecInsideWordAt(e, cursor, find_current_word_start(cursor, e.buf),
                          find_current_word_end(cursor, e.buf))
    ELSE ExecNextStartTo(e, cursor, FindCounted(e, cursor, "find_next_word_start"))

\* Object::WORD
ExecWORD(e, cursor) ==
    IF e.motion.modifier = Inside
    THEN ExecInsideWORDAt(e, cursor, find_current_WORD_start(cursor, e.buf),
                          find_current_WORD_end(cursor, e.buf))
    ELSE ExecNextStartTo(e, cursor, FindCounted(e, cursor, "find_next_WORD_start"))

\* Object::WordEnd, the lookup having returned pos
ExecWordEndTo(e, cursor, pos) ==
    IF pos = NonePos THEN e
    ELSE IF pos = FaultPos THEN EdFault(e)
    ELSE IF e.motion.action = "Delete" THEN RemoveTo(e, cursor, pos)
    ELSE from_linepos(e, pos)

\* Object::WordEnd
ExecWordEnd(e, cursor) == ExecWordEndTo(e, cursor, FindCounted(e, cursor, "find_next_word_end"))

\* Object::Append, the cursor line line_len chars long
ExecAppend(e, ll) ==
    IF ll < 0 THEN EdFault(e)
    ELSE IF ll > 0 THEN [e EXCEPT !.mode = "Insert", !.x = e.x + 1]
    ELSE [e EXCEPT !.mode = "Insert"]

\* Object::VisualSelection in Visual mode
ExecVisualDelete(e, min, max) ==
    [from_linepos(WithBuf(e, remove_by_range(e.buf, min.line, min.col, max.line, max.col)), min)
        EXCEPT !.mode = "Normal"]

\* the loop run once whatever the range
RemoveLineOnce(t, ln, n) == remove_line(t, ln)

RECURSIVE RemoveLineTimes(_, _, _)
\* for _ in start.line..(end.line + 1) { buffer.remove_line(start.line) }
RemoveLineTimes(t, ln, n) ==
    IF n <= 0 THEN t ELSE RemoveLineTimes(remove_line(t, ln), ln, n - 1)

\* Object::VisualSelection in VisualLine mode, the lines removed: the cursor goes to
\* start, its line clamped to the last line ln and its col to the line_len of ln
VisualLineCursor(e, start, ln, ll) ==
    IF ll < 0 \/ ln < 0 THEN EdFault(e)
    ELSE [from_linepos(e, Pos(ln, Min(start.col, ll))) EXCEPT !.mode = "Normal"]

\* Object::VisualSelection in VisualLine mode, b the buffer without the lines
VisualLineRemoved(e, start, b) ==
    IF ~TOk(b) \/ total_lines(b) < 1 THEN EdFault(WithBuf(e, b))
    ELSE VisualLineCursor(WithBuf(e, b), start, Min(start.line, total_lines(b) - 1),
                          line_len(b, Min(start.line, total_lines(b) - 1)))

\* Object::VisualSelection
ExecVisualSelection(e, cursor) ==
    IF e.motion.action # "Delete" THEN e
    ELSE IF e.mode = "Visual"
    THEN ExecVisualDelete(e, PosMin(e.visual_range_anchor, cursor),
                          PosMax(e.visual_range_anchor, cursor))
    ELSE IF e.mode = "VisualLine"
    THEN VisualLineRemoved(e, PosMin(e.visual_range_anchor, cursor),
             RemoveLineTimes(e.buf, PosMin(e.visual_range_anchor, cursor).line,
                             PosMax(e.visual_range_anchor, cursor).line
                               - PosMin(e.visual_range_anchor, cursor).line + 1))
    ELSE e

\* Object::Up / Object::Down: the cursor on line y, max_x being line_len(..).max(1)
MoveToLine(e, y, ll) ==
    IF ll < 0 THEN EdFault(e)
    ELSE [e EXCEPT !.y = y, !.x = IF e.wanted_x > Max(ll, 1) THEN Max(ll, 1) ELSE e.wanted_x]

\* Object::Up
ExecUp(e, cursor) ==
    IF cursor.line > 0 THEN MoveToLine(e, e.y - 1, line_len(e.buf, cursor.line - 1)) ELSE e

\* Object::Down
ExecDown(e, cursor) ==
    IF total_lines(e.buf) < 1 THEN EdFault(e)
    ELSE IF cursor.line < total_lines(e.buf) - 1
    THEN MoveToLine(e, e.y + 1, line_len(e.buf, cursor.line + 1))
    ELSE e

\* Object::Left
ExecLeft(e, cursor) ==
    IF cursor.col > 0 THEN [e EXCEPT !.x = e.x - 1, !.wanted_x = e.x - 1] ELSE e

\* Object::Right, the cursor line line_len chars long
ExecRight(e, cursor, ll) ==
    IF ll < 0 THEN EdFault(e)
    ELSE IF cursor.col + 1 < ll \/ (e.mode = "Visual" /\ e.x = ll)
    THEN [e EXCEPT !.x = e.x + 1, !.wanted_x = e.wanted_x + 1]
    ELSE e

\* Object::Line with Action::Delete, the line removed: the cursor on line y, that
\* line line_len chars long
LineDeletedCursor(e, cursor, y, ll) ==
    IF ll < 0 \/ y < 1 THEN EdFault(e)
    ELSE IF cursor.col >= ll THEN [e EXCEPT !.y = y, !.x = Max(ll, 1)]
    ELSE [e EXCEPT !.y = y]

\* Object::Line with Action::Delete, the line removed from the buffer and the
\* cursor to stay on line y
LineDeletedAt(e, cursor, y) ==
    IF ~EdOk(e) \/ y < 1 THEN EdFault(e)
    ELSE LineDeletedCursor(e, cursor, y, line_len(e.buf, y - 1))

\* Object::Line with Action::Delete, the cursor kept on its line also when the
\* last line was removed
LineDeletedNoSnap(e, cursor, b) == LineDeletedAt(WithBuf(e, b), cursor, e.y)

\* Object::Line with Action::Delete, b the buffer without the line
LineDeleted(e, cursor, b) ==
    LineDeletedAt(WithBuf(e, b), cursor,
                  IF cursor.line = total_lines(b) /\ cursor.line > 0 THEN e.y - 1 ELSE e.y)

\* Object::Line with Action::Goto or a counted Action::GOTO: the cursor on `line`,
\* x at most max_x
GotoLineCursor(e, ln, max_x) ==
    IF max_x < 0 THEN EdFault(e) ELSE [e EXCEPT !.y = ln, !.x = Min(e.x, max_x)]

\* Object::Line with Action::Goto, `line` being the count clamped to total_lines
GotoLine(e, ln) ==
    IF ln < 1 \/ line_len(e.buf, ln - 1) < 0 THEN EdFault(e)
    ELSE GotoLineCursor(e, ln, line_len(e.buf, ln - 1) + 1)

\* Object::Line with a counted Action::GOTO
GOTOLine(e, ln) ==
    IF ln < 1 THEN EdFault(e) ELSE GotoLineCursor(e, ln, line_len(e.buf, ln - 1))

\* Object::Line with Action::GOTO and no count, the last line line_len chars long
GOTOLastLine(e, last_line, ll) ==
    IF last_line < 0 \/ ll < 0 THEN EdFault(e)
    ELSE [e EXCEPT !.y = last_line + 1, !.x = Min(e.wanted_x, ll)]

\* Object::Line
ExecLine(e, cursor) ==
    IF e.motion.action = "Delete" THEN LineDeleted(e, cursor, remove_line(e.buf, cursor.line))
    ELSE IF e.motion.action = "Goto"
    THEN GotoLine(e, Min(IF e.motion.modifier.kind = "Count" THEN CountValue(e.motion.modifier) ELSE 1,
                         total_lines(e.buf)))
    ELSE IF e.motion.action = "GOTO"
    THEN IF e.motion.modifier.kind = "Count"
         THEN GOTOLine(e, Min(CountValue(e.motion.modifier), total_lines(e.buf)))
         ELSE GOTOLastLine(e, total_lines(e.buf) - 1, line_len(e.buf, total_lines(e.buf) - 1))
    ELSE e

\* Object::LineStart
ExecLineStart(e, cursor) ==
    IF e.motion.action = "Delete"
    THEN [WithBuf(e, remove_from_line(e.buf, cursor.line, 0, cursor.col))
            EXCEPT !.x = 1, !.wanted_x = 1]
    ELSE [e EXCEPT !.x = 1, !.wanted_x = 1]

\* Object::LineEnd with Action::Delete, the cursor line line_len chars long
DeleteToLineEnd(e, cursor, ll) ==
    IF ll < 0 \/ ll - cursor.col < 0 THEN EdFault(e)
    ELSE IF cursor.col > 0
    THEN [WithBuf(e, remove_from_line(e.buf, cursor.line, cursor.col, ll - cursor.col))
            EXCEPT !.x = e.x - 1, !.wanted_x = e.x - 1]
    ELSE WithBuf(e, remove_from_line(e.buf, cursor.line, cursor.col, ll - cursor.col))

\* Object::LineEnd without Action::Delete, the cursor line line_len chars long
MoveToLineEnd(e, ll) ==
    IF ll < 0 THEN EdFault(e)
    ELSE IF e.mode = "Visual" THEN [e EXCEPT !.x = Max(ll + 1, 1), !.wanted_x = Max(ll + 1, 1)]
    ELSE [e EXCEPT !.x = Max(ll, 1), !.wanted_x = Max(ll, 1)]

\* Object::LineEnd
ExecLineEnd(e, cursor) ==
    IF e.motion.action = "Delete" THEN DeleteToLineEnd(e, cursor, line_len(e.buf, cursor.line))
    ELSE MoveToLineEnd(e, line_len(e.buf, e.y - 1))

\* Object::CharUnderCursor, n the count and line_len the length of the cursor line
ExecCharUnderCursor(e, cursor, n, ll) ==
    IF ll < 0 THEN EdFault(e)
    ELSE IF ll = 0 THEN e
    ELSE IF ll - cursor.col < 0 THEN EdFault(e)
    ELSE IF e.x - 1 >= ll - 1 /\ e.x > 1
    THEN [WithBuf(e, remove_from_line(e.buf, cursor.line, cursor.col, Min(n, ll - cursor.col)))
            EXCEPT !.x = e.x - 1, !.wanted_x = e.x - 1]
    ELSE WithBuf(e, remove_from_line(e.buf, cursor.line, cursor.col, Min(n, ll - cursor.col)))

\* Object::CommandBarMode / Object::SearchMode: the mode entered, its first char
\* pushed to command_bar_input
ExecLineMode(e, mode, char) ==
    [e EXCEPT !.mode = mode, !.command_bar_input = Append(e.command_bar_input, char),
              !.cmd_bar_cursor_x = 1]

\* positions.binary_search(&cursor) on the sorted positions: the index of the
\* first position not below the cursor
LowerBound(cursor, positions) ==
    Cardinality({k \in 1..Len(positions) : PosLess(positions[k], cursor)})

\* editor::next_position
next_position(cursor, positions) ==
    IF positions = <<>> THEN NonePos
    ELSE IF LowerBound(cursor, positions) < Len(positions)
            /\ positions[LowerBound(cursor, positions) + 1] = cursor
    THEN IF LowerBound(cursor, positions) + 1 < Len(positions)
         THEN positions[LowerBound(cursor, positions) + 2]
         ELSE positions[1]
    ELSE IF LowerBound(cursor, positions) < Len(positions)
    THEN positions[LowerBound(cursor, positions) + 1]
    ELSE positions[1]

\* editor::previous_position
previous_position(cursor, positions) ==
    IF positions = <<>> THEN NonePos
    ELSE IF LowerBound(cursor, positions) = 0 THEN positions[Len(positions)]
    ELSE positions[LowerBound(cursor, positions)]

\* closest_position taking the last position, not the first, when every
\* position is below the cursor
closest_positionNoWrap(cursor, positions) ==
    IF positions = <<>> THEN NonePos
    ELSE IF LowerBound(cursor, positions) = Len(positions) THEN positions[Len(positions)]
    ELSE positions[LowerBound(cursor, positions) + 1]

\* editor::closest_position
closest_position(cursor, positions) ==
    IF positions = <<>> THEN NonePos
    ELSE IF LowerBound(cursor, positions) = Len(positions) THEN positions[1]
    ELSE positions[LowerBound(cursor, positions) + 1]

\* Object::NextSearchResult / Object::PreviousSearchResult, the lookup having
\* returned pos
ExecSearchResult(e, pos) == IF pos = NonePos THEN e ELSE from_linepos(e, pos)

\* the match of Editor::execute_cmd on the object of the pending motion
ExecObject(e, cursor) ==
    CASE e.motion.object = "BackWord" -> ExecBackWord(e, cursor)
      [] e.motion.object = "Word" -> ExecWord(e, cursor)
      [] e.motion.object = "WordEnd" -> ExecWordEnd(e, cursor)
      [] e.motion.object = "WORD" -> ExecWORD(e, cursor)
      [] e.motion.object = "Append" -> ExecAppend(e, line_len(e.buf, cursor.line))
      [] e.motion.object = "Insert" -> [e EXCEPT !.mode = "Insert"]
      [] e.motion.object = "NormalMode" -> [e EXCEPT !.mode = "Normal"]
      [] e.motion.object = "VisualMode" ->
            [e EXCEPT !.mode = "Visual", !.visual_range_anchor = cursor]
      [] e.motion.object = "VisualLineMode" ->
            [e EXCEPT !.mode = "VisualLine", !.visual_range_anchor = cursor]
      [] e.motion.object = "VisualSelection" -> ExecVisualSelection(e, cursor)
      [] e.motion.object = "CommandBarMode" -> ExecLineMode(e, "CommandBar", 58)
      [] e.motion.object = "Up" -> ExecUp(e, cursor)
      [] e.motion.object = "Down" -> ExecDown(e, cursor)
      [] e.motion.object = "Left" -> ExecLeft(e, cursor)
      [] e.motion.object = "Right" -> ExecRight(e, cursor, line_len(e.buf, cursor.line))
      [] e.motion.object = "Line" -> ExecLine(e, cursor)
      [] e.motion.object = "LineStart" -> ExecLineStart(e, cursor)
      [] e.motion.object = "LineEnd" -> ExecLineEnd(e, cursor)
      [] e.motion.object = "CharUnderCursor" ->
            ExecCharUnderCursor(e, cursor,
                IF e.motion.modifier.kind = "Count" THEN CountValue(e.motion.modifier) ELSE 1,
                line_len(e.buf, cursor.line))
      [] e.motion.object = "SearchMode" -> ExecLineMode(e, "Search", 47)
      [] e.motion.object = "NextSearchResult" ->
            ExecSearchResult(e, next_position(cursor, e.search_results))
      [] e.motion.object = "PreviousSearchResult" ->
            ExecSearchResult(e, previous_position(cursor, e.search_results))

\* Editor::execute_cmd followed by the motion.clear() of handle_input when it
\* returned true: nothing without an object; a cursor to_linepos cannot read panics
execute_cmd(e) ==
    IF e.motion.object = "None" THEN e
    ELSE IF to_linepos(e) = FaultPos THEN EdFault(e)
    ELSE [ExecObject(e, to_linepos(e)) EXCEPT !.motion = Motion_clear(e.motion)]

(***************************************************************************)
(* The command bar of src/src/command_bar.rs.  A string is the sequence of *)
(* its chars.                                                              *)
(***************************************************************************)
\* the command table of lookup_table!, sorted: e, edit, q, quit, w, write
NAMES ==
    << <<101>>, <<101, 100, 105, 116>>, <<113>>, <<113, 117, 105, 116>>,
       <<119>>, <<119, 114, 105, 116, 101>> >>

\* the handlers of the command table
FUNCTIONS == <<"edit", "edit", "quit", "quit", "write", "write">>

RECURSIVE StrLess(_, _)
\* str::cmp(a, b) == Less
StrLess(a, b) ==
    IF b = <<>> THEN FALSE
    ELSE IF a = <<>> THEN TRUE
    ELSE IF Head(a) # Head(b) THEN Head(a) < Head(b)
    ELSE StrLess(Tail(a), Tail(b))

\* str::starts_with
starts_with(st, prefix) ==
    Len(prefix) <= Len(st) /\ SubSeq(st, 1, Len(prefix)) = prefix

\* match_cmd behind a failed binary search that returned Err(n): NAMES[n] is
\* read without a bound check
MatchCmdAt(input, n) ==
    IF n >= Len(NAMES) THEN "panic"
    ELSE IF starts_with(NAMES[n + 1], input) THEN FUNCTIONS[n + 1]
    ELSE "None"

\* match_cmd: the handler found, "None", or "panic"
match_cmd(input) ==
    IF \E k \in 1..Len(NAMES) : NAMES[k] = input
    THEN FUNCTIONS[CHOOSE k \in 1..Len(NAMES) : NAMES[k] = input]
    ELSE MatchCmdAt(input, Cardinality({k \in 1..Len(NAMES) : StrLess(NAMES[k], input)}))

\* command_bar_input.splitn(2, " "): the part before the first space
FirstPart(st) == IF FirstIndexOf(st, 32) = 0 THEN st ELSE SubSeq(st, 1, FirstIndexOf(st, 32) - 1)


(***************************************************************************)
(* search of src/src/search.rs and indent_wanted of src/src/indent.rs.     *)
(* TextBuffer::full_view, byte_to_linepos and bytes_iter are not part of   *)
(* the sources: full_view is taken as the bytes before and behind the gap  *)
(* (Contiguous when one side is empty), byte_to_linepos as the line of a   *)
(* byte offset and the chars before it on that line, bytes_iter as the     *)
(* bytes from a position to the end of the buffer.                         *)
(***************************************************************************)
RECURSIVE WindowsFrom(_, _, _)
\* the offsets i >= from of the windows of bytes that equal needle, ascending
WindowsFrom(bytes, needle, from) ==
    IF from + Len(needle) > Len(bytes) THEN <<>>
    ELSE IF SubSeq(bytes, from + 1, from + Len(needle)) = needle
    THEN <<from>> \o WindowsFrom(bytes, needle, from + 1)
    ELSE WindowsFrom(bytes, needle, from + 1)

\* the two parts of full_view: the bytes before the gap and those behind it
FullViewParts(t) ==
    <<Slice(t.chars.data, 0, t.chars.gap_start),
      Slice(t.chars.data, t.chars.gap_end, Len(t.chars.data))>>

\* the line of the byte offset i, by the line-start table
LineOfByte(starts, i) == Cardinality({k \in 1..Len(starts) : starts[k] <= i}) - 1

\* byte_to_linepos
byte_to_linepos(t, i) ==
    Pos(LineOfByte(Starts(t), i),
        Cardinality({k \in (Starts(t)[LineOfByte(Starts(t), i) + 1] + 1)..i :
                        Content(t)[k] < 128 \/ Content(t)[k] >= 192}))

\* the positions of the offsets found in one part of the view, which starts at
\* byte `shift` of the buffer
PositionsOf(t, offsets, shift) ==
    [k \in 1..Len(offsets) |-> byte_to_linepos(t, offsets[k] + shift)]

\* search::search over the two parts of the view; slice::windows(0) panics
SearchParts(needle, t, s1, s2) ==
    IF needle = <<>> THEN <<FaultPos>>
    ELSE PositionsOf(t, WindowsFrom(s1, needle, 0), 0)
         \o PositionsOf(t, WindowsFrom(s2, needle, 0), Len(s1))

\* search::search
search(needle, t) == SearchParts(needle, t, FullViewParts(t)[1], FullViewParts(t)[2])

RECURSIVE LeadingSpaces(_)
\* the loop of indent_wanted: the bytes b' ' before the first other byte
LeadingSpaces(bytes) ==
    IF bytes = <<>> \/ Head(bytes) # 32 THEN 0 ELSE 1 + LeadingSpaces(Tail(bytes))

\* indent_wanted; -1 is Option::None
indent_wanted(ln, t) ==
    IF ln = 0 THEN -1
    ELSE IF get_one(t.lines, ln - 1) < 0 THEN FAULT
    ELSE LeadingSpaces(get_to_end(t.chars, get_one(t.lines, ln - 1)))

(***************************************************************************)
(* Editor::handle_input, one tick.  io is the input of the tick:           *)
(* [chars, special_keys]; slack is the spare capacity a reallocation of    *)
(* the tick adds.                                                          *)
(***************************************************************************)
\* Insert mode: the typed chars
InsertTyped(e, ln, chars, slack) ==
    IF ~EdOk(e) \/ chars = <<>> THEN e
    ELSE IF e.x < 1 THEN EdFault(e)
    ELSE [WithBuf(e, insert_into_line(e.buf, ln, e.x - 1, Utf8EncodeAll(chars), slack))
            EXCEPT !.x = e.x + Len(chars)]

\* Insert mode, Enter: the auto-indent of the new line, indent_wanted having
\* returned indent
InsertIndented(e, ln, indent, slack) ==
    IF ~EdOk(e) THEN e
    ELSE IF indent = FAULT THEN EdFault(e)
    ELSE IF indent > 0
    THEN [WithBuf(e, insert_into_line(e.buf, ln + 1, 0, [k \in 1..indent |-> 32], slack))
            EXCEPT !.x = indent + 1, !.wanted_x = indent + 1]
    ELSE e

\* Insert mode, Enter: behind the split, the cursor at the start of the new line
InsertBroken(e, ln, slack) ==
    IF ~EdOk(e) THEN e
    ELSE InsertIndented([e EXCEPT !.y = e.y + 1, !.x = 1], ln,
                        indent_wanted(ln + 1, e.buf), slack)

\* Insert mode, Enter, the line line_len chars long
InsertEnterAt(e, ln, ll, slack) ==
    IF ll < 0 \/ e.x < 1 \/ ll - (e.x - 1) < 0 THEN EdFault(e)
    ELSE IF ll - (e.x - 1) > 0
    THEN InsertBroken(WithBuf(e, split_line_at_index(e.buf, ln, e.x - 1, slack)), ln, slack)
    ELSE InsertBroken(WithBuf(e, insert_empty_line(e.buf, e.y, slack)), ln, slack)

\* Insert mode: Enter
InsertEnter(e, ln, special_keys, slack) ==
    IF ~EdOk(e) \/ "Enter" \notin special_keys THEN e
    ELSE InsertEnterAt(e, ln, line_len(e.buf, ln), slack)

\* Insert mode: Tab
InsertTab(e, ln, special_keys, slack) ==
    IF ~EdOk(e) \/ "Tab" \notin special_keys THEN e
    ELSE IF e.x < 1 THEN EdFault(e)
    ELSE [WithBuf(e, insert_into_line(e.buf, ln, e.x - 1, <<32, 32, 32, 32>>, slack))
            EXCEPT !.x = e.x + 4, !.wanted_x = e.x + 4]

\* Insert mode: Escape
InsertEscape(e, special_keys) ==
    IF ~EdOk(e) \/ "Escape" \notin special_keys THEN e
    ELSE IF e.x < 1 THEN EdFault(e)
    ELSE [e EXCEPT !.mode = "Normal", !.x = Max(e.x - 1, 1), !.wanted_x = Max(e.x - 1, 1)]

\* Insert mode, Backspace at column 1: the join with the line before, which is
\* next_cursor_pos chars long
InsertJoinAt(e, ln, next_cursor_pos) ==
    IF next_cursor_pos < 0 THEN EdFault(e)
    ELSE [WithBuf(e, remove_line_sep(e.buf, ln - 1))
            EXCEPT !.x = next_cursor_pos + 1, !.wanted_x = next_cursor_pos + 1, !.y = e.y - 1]

\* Insert mode, Backspace, the line row_len chars long
InsertBackspaceAt(e, ln, row_len) ==
    IF row_len < 0 THEN EdFault(e)
    ELSE IF row_len > 0 /\ e.x > 1
    THEN [WithBuf(e, remove_from_line(e.buf, ln, e.x - 2, 1))
            EXCEPT !.x = e.x - 1, !.wanted_x = e.x - 1]
    ELSE IF e.x = 1 /\ e.y > 1
    THEN IF ln < 1 THEN EdFault(e) ELSE InsertJoinAt(e, ln, line_len(e.buf, ln - 1))
    ELSE e

\* Insert mode: Backspace
InsertBackspace(e, ln, special_keys) ==
    IF ~EdOk(e) \/ "Backspace" \notin special_keys THEN e
    ELSE InsertBackspaceAt(e, ln, line_len(e.buf, ln))

\* handle_input in Insert mode; line is read once, before the keys
HandleInsert(e, io, slack) ==
    IF e.y < 1 THEN EdFault(e)
    ELSE InsertBackspace(
            InsertEscape(
               InsertTab(
                  InsertEnter(InsertTyped(e, e.y - 1, io.chars, slack),
                              e.y - 1, io.special_keys, slack),
                  e.y - 1, io.special_keys, slack),
               io.special_keys),
            e.y - 1, io.special_keys)

\* CommandBar mode: the typed chars
BarTyped(e, chars) ==
    IF chars = <<>> THEN e
    ELSE [e EXCEPT !.command_bar_input = @ \o chars, !.cmd_bar_cursor_x = @ + Len(chars)]

\* String::pop and cmd_bar_cursor_x -= 1
BarBackspace(e, special_keys) ==
    IF ~EdOk(e) \/ "Backspace" \notin special_keys THEN e
    ELSE IF e.cmd_bar_cursor_x < 1 THEN EdFault(e)
    ELSE [e EXCEPT !.command_bar_input = SubSeq(@, 1, Len(@) - 1), !.cmd_bar_cursor_x = @ - 1]

\* CommandBar and Search mode: Escape
BarEscape(e, special_keys) ==
    IF ~EdOk(e) \/ "Escape" \notin special_keys THEN e
    ELSE [e EXCEPT !.command_bar_input = <<>>, !.mode = "Normal"]

\* the end of the CommandBar and Search branches without the check for an
\* empty line
BarEmptyOmitted(e) == e

\* CommandBar and Search mode: the mode left once the line is empty
BarEmpty(e) ==
    IF EdOk(e) /\ e.command_bar_input = <<>> THEN [e EXCEPT !.mode = "Normal"] ELSE e

\* the handlers of src/src/command_bar.rs run without arguments: quit sets
\* SHOULD_QUIT, write saves the buffer, edit does nothing; then the line is cleared
BarRun(e, func) ==
    [e EXCEPT !.should_quit = e.should_quit \/ func = "quit", !.cmd_bar_cursor_x = 1,
              !.command_bar_input = <<>>, !.mode = "Normal"]

\* CommandBar mode behind Enter with the handler found: Backspace, Escape and
\* the check for an empty line
BarRest(e, special_keys) == BarEmpty(BarEscape(BarBackspace(e, special_keys), special_keys))

\* CommandBar mode from Enter on, match_cmd having returned func: `return`
\* without a handler
BarEnterWith(e, func, special_keys) ==
    IF func = "panic" THEN EdFault(e)
    ELSE IF func = "None" THEN e
    ELSE BarRest(BarRun(e, func), special_keys)

\* CommandBar mode from Enter on
BarEnter(e, special_keys) ==
    IF "Enter" \notin special_keys THEN BarRest(e, special_keys)
    ELSE IF FirstPart(e.command_bar_input) = <<>> THEN EdFault(e)
    ELSE BarEnterWith(e, match_cmd(Tail(FirstPart(e.command_bar_input))), special_keys)

\* handle_input in CommandBar mode
HandleCommandBar(e, io) == BarEnter(BarTyped(e, io.chars), io.special_keys)

\* Search mode: the search results replaced by positions
WithResults(e, positions) ==
    IF positions # <<>> /\ positions[1] = FaultPos THEN EdFault(e)
    ELSE [e EXCEPT !.search_results = positions]

\* Search mode: the typed chars and the search they trigger
SearchTyped(e, chars) ==
    IF chars = <<>> THEN e
    ELSE WithResults([e EXCEPT !.command_bar_input = @ \o chars, !.cmd_bar_cursor_x = @ + 1],
                     search(Utf8EncodeAll(Tail(e.command_bar_input \o chars)), e.buf))

\* Search mode, Enter, closest_position having returned pos
SearchEnterTo(e, pos) ==
    IF pos = NonePos THEN [e EXCEPT !.command_bar_input = <<>>, !.mode = "Normal"]
    ELSE [from_linepos(e, pos) EXCEPT !.command_bar_input = <<>>, !.mode = "Normal"]

\* Search mode: Enter
SearchEnter(e, special_keys) ==
    IF ~EdOk(e) \/ "Enter" \notin special_keys THEN e
    ELSE IF to_linepos(e) = FaultPos THEN EdFault(e)
    ELSE SearchEnterTo(e, closest_position(to_linepos(e), e.search_results))

\* handle_input in Search mode
HandleSearch(e, io) ==
    BarEmpty(BarEscape(SearchEnter(BarBackspace(SearchTyped(e, io.chars), io.special_keys),
                                   io.special_keys),
                       io.special_keys))

\* one round of the loop over the chars of Normal, Visual and VisualLine mode:
\* parse, then execute_cmd and the clear behind it
KeyStep(e, char) ==
    IF ~EdOk(e) THEN e
    ELSE execute_cmd([e EXCEPT !.motion = Motion_parse(e.motion, char, e.mode)])

RECURSIVE Keys(_, _)
\* the loop over the chars
Keys(e, chars) == IF chars = <<>> THEN e ELSE Keys(KeyStep(e, Head(chars)), Tail(chars))

\* Normal, Visual and VisualLine mode: Escape
NormalEscape(e, special_keys) ==
    IF ~EdOk(e) \/ "Escape" \notin special_keys THEN e
    ELSE [e EXCEPT !.motion = Motion_clear(e.motion), !.mode = "Normal"]

\* handle_input in Normal, Visual and VisualLine mode
HandleNormal(e, io) == NormalEscape(Keys(e, io.chars), io.special_keys)

\* Editor::handle_input
handle_input(e, io, slack) ==
    CASE e.mode = "Insert" -> HandleInsert(e, io, slack)
      [] e.mode = "CommandBar" -> HandleCommandBar(e, io)
      [] e.mode = "Search" -> HandleSearch(e, io)
      [] OTHER -> HandleNormal(e, io)

(***************************************************************************)
(* The editor specification: Editor::from_path on a small file (the buffer *)
(* as TextBuffer::from_data builds it), the cursor somewhere on the text   *)
(* in Normal or Insert mode, then ticks of the main loop, each one call of *)
(* handle_input on the input the frame has gathered.  `it` is the editor, `ref` the editor before the last     *)
(* tick, `last` the input of the last tick and the number of ticks so far. *)
(***************************************************************************)
\* the files the editor is started on: "foo bar\nbaz\n", "a.b\n\n  z",
\* "\u{e9} b\r\nab" and "ab"
EdFiles ==
    {JoinLines(<< <<102, 111, 111, 32, 98, 97, 114>>, <<98, 97, 122>> >>, LF, TRUE),
     JoinLines(<< <<97, 46, 98>>, <<>>, <<32, 32, 122>> >>, LF, FALSE),
     JoinLines(<< <<233, 32, 98>>, <<97, 98>> >>, CRLF, FALSE),
     JoinLines(<< <<97, 98>> >>, LF, FALSE)}

\* the keys of Motion::parse the ticks type; 'z', U+00E9 and U+0400 for the others
EdKeys ==
    {Ch("$"), Ch("/"), Ch("0"), Ch("2"), Ch(":"), Ch("G"), Ch("N"), Ch("V"), Ch("W"),
     Ch("a"), Ch("b"), Ch("d"), Ch("e"), Ch("g"), Ch("h"), Ch("i"), Ch("j"), Ch("k"),
     Ch("l"), Ch("n"), Ch("q"), Ch("v"), Ch("w"), Ch("x"), Ch("z"), 233, 1024}

\* the strings of more than one char a frame gathers
Scripts ==
    {<<Ch("d"), Ch("w")>>, <<Ch("d"), Ch("z"), Ch("w")>>, <<Ch("d"), Ch("2"), Ch("w")>>,
     <<Ch("d"), Ch("e")>>, <<Ch("d"), Ch("b")>>, <<Ch("d"), Ch("i"), Ch("w")>>,
     <<Ch("v"), Ch("l")>>, <<Ch("v"), Ch("j"), Ch("l"), Ch("l")>>, <<Ch("v"), Ch("k")>>,
     <<Ch("v"), Ch("$")>>, <<Ch("V"), Ch("j")>>, <<Ch("a"), Ch("b")>>, <<Ch("z"), 233>>,
     <<Ch("d"), Ch("d")>>, <<Ch("1"), Ch("G")>>,
     <<Ch("2"), Ch("G")>>, <<Ch("2"), Ch("x")>>, <<Ch("V"), Ch("k")>>,
     <<Ch("v"), Ch("2"), Ch("l"), Ch("g"), Ch("g")>>}

\* the special keys a frame gathers together
SpecialSets ==
    {{"Escape"}, {"Enter"}, {"Backspace"}, {"Tab"}, {"Enter", "Escape"},
     {"Backspace", "Escape"}, {"Enter", "Backspace"}}

\* the chars a frame gathers together with Escape, or with Enter and Escape
EscapedChars == {<<Ch(":")>>, <<Ch("/")>>, <<Ch("d")>>, <<Ch("x")>>, <<Ch("z")>>, <<Ch("2")>>}

\* the chars a frame gathers together with Enter
EnteredChars == {<<Ch("b")>>, <<Ch("d")>>, <<Ch("z")>>}

\* the chars a frame gathers together with Backspace
ErasedChars == {<<Ch("a"), Ch("b")>>}

\* Io as the frames fill it
TickInputs ==
    {[chars |-> <<c>>, special_keys |-> {}] : c \in EdKeys}
    \cup {[chars |-> cs, special_keys |-> {}] : cs \in Scripts}
    \cup {[chars |-> <<>>, special_keys |-> ks] : ks \in SpecialSets}
    \cup {[chars |-> cs, special_keys |-> ks] :
             cs \in EscapedChars, ks \in {{"Escape"}, {"Enter", "Escape"}}}
    \cup {[chars |-> cs, special_keys |-> {"Enter"}] : cs \in EnteredChars}
    \cup {[chars |-> cs, special_keys |-> {"Backspace"}] : cs \in ErasedChars}

\* Editor::from_path and CursorPos::new on the buffer b, the cursor then moved
\* to line y, column x by h, j, k, l and the mode entered by i or a
Editor_from(b, x, y, mode) ==
    [buf |-> b, x |-> x, y |-> y, wanted_x |-> x, mode |-> mode, motion |-> Motion_new,
     visual_range_anchor |-> Pos(0, 0), command_bar_input |-> <<>>,
     search_results |-> <<>>, cmd_bar_cursor_x |-> 0, should_quit |-> FALSE, ok |-> TRUE]

\* Io::reset: no input gathered yet
NoInput == [chars |-> <<>>, special_keys |-> {}, ticks |-> 0]

EdInit ==
    /\ \E bytes \in EdFiles : \E slack \in 0..ReserveSlack :
       \E y \in 1..total_lines(from_data(bytes, slack, slack)) :
       \E mode \in {"Normal", "Insert"} :
       \E x \in 1..Max(line_len(from_data(bytes, slack, slack), y - 1)
                          + (IF mode = "Insert" THEN 1 ELSE 0), 1) :
          it = Editor_from(from_data(bytes, slack, slack), x, y, mode)
    /\ ref = it
    /\ last = NoInput
    /\ gbuf = Idle
    /\ tb = Idle

\* one turn of the main loop: handle_input on the gathered input.  The command
\* bar is given no arguments: `edit` with a path opens another buffer
Tick ==
    /\ EdOk(it) /\ ~it.should_quit /\ last.ticks < MaxTicks
    /\ \E io \in TickInputs : \E slack \in 0..(IF it.mode = "Insert" THEN ReserveSlack ELSE 0) :
          /\ it.mode = "CommandBar" => \A k \in 1..Len(io.chars) : io.chars[k] # 32
          /\ it' = handle_input(it, io, slack)
          /\ ref' = it
          /\ last' = [chars |-> io.chars, special_keys |-> io.special_keys,
                      ticks |-> last.ticks + 1]
    /\ UNCHANGED <<gbuf, tb>>

EdNext == Tick

EdSpec == EdInit /\ [][EdNext]_vars

(***************************************************************************)
(* C14: typing in Insert mode.                                             *)
(***************************************************************************)
\* whether the last tick ran in mode `mode` on a well-formed buffer with the
\* cursor on its text
TickedIn(mode) ==
    /\ last.ticks > 0 /\ ref.mode = mode /\ WellFormed(ref.buf)
    /\ ref.y >= 1 /\ ref.y <= total_lines(ref.buf)
    /\ ref.x >= 1 /\ ref.x - 1 <= Len(TextOf(ref.buf)[ref.y])

\* C14: an Insert-mode tick that delivers the string s and no special key, the
\* cursor at (L, c), turns the text t of line L into t[..c] + s + t[c..] (c in
\* chars), leaves the other lines and total_lines alone and advances cursor.x by
\* the chars of s
InsertTickInsertsAtCursor ==
    (TickedIn("Insert") /\ last.chars # <<>> /\ last.special_keys = {}) =>
        /\ EdOk(it)
        /\ total_lines(it.buf) = total_lines(ref.buf)
        /\ TextOf(it.buf) = [TextOf(ref.buf) EXCEPT ![ref.y] = SeqInsert(@, ref.x - 1, last.chars)]
        /\ it.x = ref.x + Len(last.chars) /\ it.y = ref.y

(***************************************************************************)
(* C15: d, w in Normal mode.                                               *)
(***************************************************************************)
\* the lines txt without the chars from p up to but not including q
WithoutUpTo(txt, p, q) ==
    SubSeq(txt, 1, p.line)
    \o << SubSeq(txt[p.line + 1], 1, p.col)
          \o SubSeq(txt[q.line + 1], q.col + 1, Len(txt[q.line + 1])) >>
    \o SubSeq(txt, q.line + 2, Len(txt))

\* whether the last tick typed chars, and no special key, in mode `mode` with
\* no motion pending
Typed(mode, chars) ==
    /\ TickedIn(mode) /\ ref.motion = Motion_new
    /\ last.chars = chars /\ last.special_keys = {}

\* the next word start the keys d, w of the last tick looked up
NextWordStartOfTick == find_next_word_start(to_linepos(ref), ref.buf)

\* C15: in Normal mode d, w with the cursor at p and a next word start q removes
\* exactly the chars from p up to but not including q (the separator included
\* when q is on a following line), nothing before p, and leaves the cursor at p
DeleteWordRemovesUpToNextStart ==
    (Typed("Normal", <<Ch("d"), Ch("w")>>) /\ NextWordStartOfTick.line >= 0) =>
        /\ EdOk(it)
        /\ TextOf(it.buf) = WithoutUpTo(TextOf(ref.buf), to_linepos(ref), NextWordStartOfTick)
        /\ it.x = ref.x /\ it.y = ref.y /\ it.mode = "Normal"

(***************************************************************************)
(* C16: d in Visual mode.                                                  *)
(***************************************************************************)
\* the lines txt without the chars from position min through position max, the
\* separator of max's line with them when max is one past its last char
WithoutThrough(txt, min, max) ==
    IF min.line = max.line THEN WithoutSpan(txt, min.line, min.col, max.col)
    ELSE IF max.col < Len(txt[max.line + 1]) \/ max.line + 1 = Len(txt)
    THEN WithoutLines(txt, min.line, min.col, max.line, max.col)
    ELSE SubSeq(txt, 1, min.line)
         \o <<SubSeq(txt[min.line + 1], 1, min.col) \o txt[max.line + 2]>>
         \o SubSeq(txt, max.line + 3, Len(txt))

\* C16: in Visual mode with anchor a and cursor c, d removes exactly the chars
\* from min(a, c) through max(a, c), puts the cursor on min(a, c) and returns to
\* Normal mode
VisualDeleteRemovesSelection ==
    Typed("Visual", <<Ch("d")>>) =>
        /\ EdOk(it)
        /\ TextOf(it.buf) = WithoutThrough(TextOf(ref.buf),
                                           PosMin(ref.visual_range_anchor, to_linepos(ref)),
                                           PosMax(ref.visual_range_anchor, to_linepos(ref)))
        /\ to_linepos(it) = PosMin(ref.visual_range_anchor, to_linepos(ref))
        /\ it.mode = "Normal"

(***************************************************************************)
(* C17: a dispatch consumes the whole pending Motion.                      *)
(***************************************************************************)
\* the editor after the first k chars of the last tick, Normal/Visual branch
AfterKeys(k) == Keys(ref, SubSeq(last.chars, 1, k))

\* whether the k-th char of the last tick gave the pending Motion an Object
KeyGaveObject(k) ==
    /\ EdOk(AfterKeys(k - 1))
    /\ Motion_parse(AfterKeys(k - 1).motion, last.chars[k], AfterKeys(k - 1).mode).object
          # "None"

\* C17: once a key that gave the pending Motion an Object has been processed,
\* action, object and modifier are all empty again; at the end of every tick, in
\* every mode, motion.object is None
DispatchClearsMotion ==
    /\ EdOk(it) => it.motion.object = "None"
    /\ (last.ticks > 0 /\ ref.mode \in {"Normal", "Visual", "VisualLine"}) =>
          \A k \in 1..Len(last.chars) :
              (KeyGaveObject(k) /\ EdOk(AfterKeys(k))) => AfterKeys(k).motion = Motion_new

\* a tick that found d pending from the tick before and typed w, which the
\* dispatch consumed together with the delete
PendingDeleteConsumedByWord ==
    /\ last.ticks > 1 /\ ref.mode = "Normal" /\ ref.motion.action = "Delete"
    /\ last.chars = <<Ch("w")>> /\ last.special_keys = {}
    /\ EdOk(it) /\ it.buf # ref.buf /\ it.motion = Motion_new

(***************************************************************************)
(* C18: a key that continues no pending action.                            *)
(***************************************************************************)
\* whether the k-th char of the last tick met a pending Action and is a key
\* Motion::parse has no arm for
KeyContinuesNothing(k) ==
    /\ EdOk(AfterKeys(k - 1))
    /\ AfterKeys(k - 1).motion.action # "None"
    /\ Motion_parse(AfterKeys(k - 1).motion, last.chars[k], AfterKeys(k - 1).mode)
          = AfterKeys(k - 1).motion

\* C18: a key that is no continuation of the pending Action resets the Motion to
\* empty, so that d, then such a key, then w only moves the cursor and deletes
\* nothing
InvalidCombinationClearsMotion ==
    /\ (last.ticks > 0 /\ ref.mode = "Normal") =>
          \A k \in 1..Len(last.chars) :
              KeyContinuesNothing(k) => AfterKeys(k).motion = Motion_new
    /\ Typed("Normal", <<Ch("d"), Ch("z"), Ch("w")>>) =>
          /\ EdOk(it) /\ Content(it.buf) = Content(ref.buf)
          /\ it = Keys(ref, <<Ch("w")>>)

(***************************************************************************)
(* C19: a dispatched motion whose lookup finds nothing.                    *)
(***************************************************************************)
\* the lookup the object obj dispatches on the editor e, the count applied
TargetOf(e, obj) ==
    CASE obj = "Word" -> FindCounted(e, to_linepos(e), "find_next_word_start")
      [] obj = "WORD" -> FindCounted(e, to_linepos(e), "find_next_WORD_start")
      [] obj = "WordEnd" -> FindCounted(e, to_linepos(e), "find_next_word_end")
      [] obj = "BackWord" -> find_previous_word_start(to_linepos(e), e.buf)
      [] obj = "NextSearchResult" -> next_position(to_linepos(e), e.search_results)
      [] obj = "PreviousSearchResult" -> previous_position(to_linepos(e), e.search_results)

\* the editor as the k-th char of the last tick has it dispatched: the one after
\* k - 1 chars with the char parsed
Dispatched(k) ==
    [AfterKeys(k - 1) EXCEPT
        !.motion = Motion_parse(AfterKeys(k - 1).motion, last.chars[k], AfterKeys(k - 1).mode)]

\* whether the k-th char of the last tick dispatched w, W, e, b, n or N, without
\* Inside, and the lookup found nothing
FoundNothing(k) ==
    /\ EdOk(AfterKeys(k - 1))
    /\ WellFormed(AfterKeys(k - 1).buf)
    /\ to_linepos(AfterKeys(k - 1)) # FaultPos
    /\ Dispatched(k).motion.object
          \in {"Word", "WORD", "WordEnd", "BackWord", "NextSearchResult", "PreviousSearchResult"}
    /\ Dispatched(k).motion.modifier # Inside
    /\ TargetOf(Dispatched(k), Dispatched(k).motion.object) = NonePos

\* C19: when the lookup of a dispatched w, W, e, b, n or N finds nothing, with or
\* without d and a count, the bytes, the line-start table, the cursor and the
\* mode stay as they were and the pending Motion is cleared
NoTargetChangesNothing ==
    (last.ticks > 0 /\ ref.mode \in {"Normal", "Visual", "VisualLine"}) =>
        \A k \in 1..Len(last.chars) :
            FoundNothing(k) =>
                /\ AfterKeys(k) = [AfterKeys(k - 1) EXCEPT !.motion = Motion_new]

\* d, w typed with the cursor on the last word of the buffer: nothing is removed
DeleteWordAtBufferEnd ==
    /\ Typed("Normal", <<Ch("d"), Ch("w")>>) /\ FoundNothing(2)
    /\ EdOk(it) /\ it = ref

(***************************************************************************)
(* C20: Escape.                                                            *)
(***************************************************************************)
\* the input of the last tick without its Escape
WithoutEscape == [chars |-> last.chars, special_keys |-> last.special_keys \ {"Escape"}]

\* C20: in every mode a tick whose special keys include Escape ends in Normal
\* mode with the pending Motion and command_bar_input empty, whatever else the
\* tick delivers; the buffer is the one the chars of the tick have made
EscapeResetsToNormal ==
    (last.ticks > 0 /\ "Escape" \in last.special_keys /\ EdOk(it)) =>
        /\ it.mode = "Normal"
        /\ it.motion = Motion_new
        /\ it.command_bar_input = <<>>
        /\ ref.mode \in {"Normal", "Visual", "VisualLine"} => it.buf = Keys(ref, last.chars).buf
        /\ (ref.mode = "Insert" /\ last.special_keys = {"Escape"}) =>
              \E slack \in 0..ReserveSlack : it.buf = handle_input(ref, WithoutEscape, slack).buf

(***************************************************************************)
(* C21: Enter in CommandBar mode on a name the command table does not have.*)
(***************************************************************************)
\* the command name Enter looks up in the last tick: the first part of the line
\* with the typed chars, without its ':'
EnteredName == Tail(FirstPart(ref.command_bar_input \o last.chars))

\* whether the last tick pressed Enter in CommandBar mode on a line whose name
\* is no entry of NAMES and no beginning of one
EnteredUnknownName ==
    /\ last.ticks > 0 /\ ref.mode = "CommandBar" /\ "Enter" \in last.special_keys
    /\ FirstPart(ref.command_bar_input \o last.chars) # <<>>
    /\ \A k \in 1..Len(NAMES) : ~starts_with(NAMES[k], EnteredName)

\* C21: Enter in CommandBar mode on a name that matches no entry of the command
\* table mutates no buffer, clears the line and ends the tick in Normal mode
UnknownCommandReturnsToNormal ==
    EnteredUnknownName =>
        /\ EdOk(it)
        /\ it.buf = ref.buf
        /\ it.command_bar_input = <<>>
        /\ it.mode = "Normal"

(***************************************************************************)
(* C22: Backspace to an empty line leaves CommandBar and Search mode.      *)
(***************************************************************************)
\* C22: a tick in CommandBar or Search mode whose Backspace leaves
\* command_bar_input empty ends in Normal mode, and no tick ends in CommandBar or
\* Search mode with an empty command_bar_input
EmptyLineLeavesLineMode ==
    /\ (EdOk(it) /\ it.mode \in {"CommandBar", "Search"}) => it.command_bar_input # <<>>
    /\ (/\ last.ticks > 0 /\ ref.mode \in {"CommandBar", "Search"}
        /\ "Backspace" \in last.special_keys
        /\ EdOk(it) /\ it.command_bar_input = <<>>) => it.mode = "Normal"

\* a Search-mode tick whose Backspace removed the '/', the only char of the line
BackspaceRemovedLastChar ==
    /\ last.ticks > 0 /\ ref.mode = "Search" /\ Len(ref.command_bar_input) = 1
    /\ last.chars = <<>> /\ last.special_keys = {"Backspace"}
    /\ EdOk(it) /\ it.command_bar_input = <<>> /\ it.mode = "Normal"

(***************************************************************************)
(* C23: the search results of a tick in Search mode.                       *)
(***************************************************************************)
\* the positions at which the chars of needle occur in the lines txt
OccurrencesIn(txt, needle) ==
    {p \in UNION {{Pos(l - 1, c - 1) : c \in 1..Len(txt[l])} : l \in 1..Len(txt)} :
        /\ p.col + Len(needle) <= Len(txt[p.line + 1])
        /\ SubSeq(txt[p.line + 1], p.col + 1, p.col + Len(needle)) = needle}

\* the positions of the set S in ascending (line, column) order
Ascending(S) ==
    CHOOSE s \in [1..Cardinality(S) -> S] :
        \A i, j \in 1..Cardinality(S) : i < j => PosLess(s[i], s[j])

\* whether the last tick ran in Search mode and ended in it, a needle behind the '/'
SearchedOn ==
    /\ last.ticks > 0 /\ ref.mode = "Search" /\ WellFormed(ref.buf)
    /\ EdOk(it) /\ it.mode = "Search" /\ Len(it.command_bar_input) > 1

\* C23: at the end of a tick spent in Search mode, whether it typed chars or
\* pressed Backspace, search_results is the list of all positions at which the
\* needle, command_bar_input without its '/', occurs in the buffer, ascending by
\* (line, column)
SearchResultsFollowNeedle ==
    SearchedOn =>
        it.search_results
            = Ascending(OccurrencesIn(TextOf(it.buf), Tail(it.command_bar_input)))

(***************************************************************************)
(* C24: Enter in Search mode.                                              *)
(***************************************************************************)
\* whether the positions are in strictly ascending (line, column) order
IsAscending(positions) ==
    \A i, j \in 1..Len(positions) : i < j => PosLess(positions[i], positions[j])

\* whether the last tick pressed Enter in Search mode, the cursor on the text and
\* the result list ascending when Enter is handled
EnteredSearch ==
    /\ TickedIn("Search") /\ "Enter" \in last.special_keys
    /\ EdOk(it) /\ IsAscending(it.search_results)

\* the matches of the result list at or behind the position p
AtOrBehind(positions, p) ==
    {q \in {positions[k] : k \in 1..Len(positions)} : ~PosLess(q, p)}

\* C24: Enter in Search mode moves the cursor to the smallest match at or behind
\* the cursor, to the first match when there is none, and leaves it where it is
\* when the result list is empty; the tick ends in Normal mode with the line
\* cleared
SearchEnterJumpsToClosest ==
    (TickedIn("Search") /\ "Enter" \in last.special_keys) =>
        /\ EdOk(it) /\ it.mode = "Normal" /\ it.command_bar_input = <<>>
        /\ it.buf = ref.buf
        /\ IsAscending(it.search_results)
        /\ it.search_results = <<>> =>
              it.x = ref.x /\ it.y = ref.y /\ it.wanted_x = ref.wanted_x
        /\ (it.search_results # <<>> /\ AtOrBehind(it.search_results, to_linepos(ref)) = {}) =>
              to_linepos(it) = it.search_results[1]
        /\ AtOrBehind(it.search_results, to_linepos(ref)) # {} =>
              /\ to_linepos(it) \in AtOrBehind(it.search_results, to_linepos(ref))
              /\ \A q \in AtOrBehind(it.search_results, to_linepos(ref)) :
                    ~PosLess(q, to_linepos(it))

\* Enter with every match before the cursor: the cursor wrapped to the first of
\* two matches
SearchEnterWrapped ==
    /\ EnteredSearch /\ Len(it.search_results) > 1
    /\ AtOrBehind(it.search_results, to_linepos(ref)) = {}
    /\ to_linepos(it) = it.search_results[1] /\ it.mode = "Normal"

(***************************************************************************)
(* C25: the cursor stays on the text.                                      *)
(***************************************************************************)
\* C25: at the end of every tick cursor.x >= 1 and 1 <= cursor.y <= total_lines()
CursorStaysValid ==
    (last.ticks > 0 /\ EdOk(it)) =>
        /\ it.x >= 1
        /\ it.y >= 1 /\ it.y <= total_lines(it.buf)

(***************************************************************************)
(* C26: d, d in Normal mode.                                               *)
(***************************************************************************)
\* the lines txt without line ln (0-based); the one line of a one-line text
\* emptied
WithoutLine(txt, ln) ==
    IF Len(txt) = 1 THEN << <<>> >>
    ELSE SubSeq(txt, 1, ln) \o SubSeq(txt, ln + 2, Len(txt))

\* C26: d, d in Normal mode removes the line under the cursor, content and
\* separator (the content only on a one-line buffer), leaves the text of every
\* other line, moves the cursor to the previous line exactly when the removed
\* line was the last one, and leaves cursor.x <= max(1, length of the cursor's
\* line)
DeleteLineRemovesLine ==
    Typed("Normal", <<Ch("d"), Ch("d")>>) =>
        /\ EdOk(it) /\ TOk(it.buf)
        /\ TextOf(it.buf) = WithoutLine(TextOf(ref.buf), ref.y - 1)
        /\ it.y = (IF ref.y = total_lines(ref.buf) /\ ref.y > 1 THEN ref.y - 1 ELSE ref.y)
        /\ it.x >= 1 /\ it.x <= Max(1, line_len(it.buf, it.y - 1))
        /\ it.mode = "Normal"

\* d, d on the last of several lines: the line is gone and the cursor is on the
\* line before it
DeletedLastLine ==
    /\ Typed("Normal", <<Ch("d"), Ch("d")>>)
    /\ ref.y = total_lines(ref.buf) /\ ref.y > 1
    /\ EdOk(it) /\ it.y = ref.y - 1 /\ total_lines(it.buf) = total_lines(ref.buf) - 1

(***************************************************************************)
(* C27: G, with and without a count.                                       *)
(***************************************************************************)
\* whether the k-th char of the last tick is a G typed with the cursor on the
\* text of a well-formed buffer
TypedGOTO(k) ==
    /\ last.chars[k] = Ch("G")
    /\ EdOk(AfterKeys(k - 1)) /\ WellFormed(AfterKeys(k - 1).buf)
    /\ AfterKeys(k - 1).x >= 1
    /\ AfterKeys(k - 1).y >= 1 /\ AfterKeys(k - 1).y <= total_lines(AfterKeys(k - 1).buf)

\* the line G goes to on the editor e: the pending count clamped to total_lines,
\* the last line without a count
LineOfGOTO(e) ==
    IF e.motion.modifier.kind = "Count"
    THEN Min(CountValue(e.motion.modifier), total_lines(e.buf))
    ELSE total_lines(e.buf)

\* C27: G sets cursor.y to the count clamped to total_lines, to the last line
\* without a count, and cursor.x to the wanted column clamped to the length of
\* that line, with and without a count
GOTOUsesWantedColumn ==
    (last.ticks > 0 /\ ref.mode \in {"Normal", "Visual", "VisualLine"}) =>
        \A k \in 1..Len(last.chars) :
            TypedGOTO(k) =>
                /\ EdOk(AfterKeys(k))
                /\ AfterKeys(k).y = LineOfGOTO(AfterKeys(k - 1))
                /\ AfterKeys(k).x = Min(AfterKeys(k - 1).wanted_x,
                                        line_len(AfterKeys(k).buf, AfterKeys(k).y - 1))

(***************************************************************************)
(* C28: x, with and without a count.                                       *)
(***************************************************************************)
\* whether the k-th char of the last tick is an x typed in Normal mode with the
\* cursor on a char of a line of a well-formed buffer
TypedX(k) ==
    /\ last.chars[k] = Ch("x")
    /\ EdOk(AfterKeys(k - 1)) /\ WellFormed(AfterKeys(k - 1).buf)
    /\ AfterKeys(k - 1).mode = "Normal"
    /\ AfterKeys(k - 1).y >= 1 /\ AfterKeys(k - 1).y <= total_lines(AfterKeys(k - 1).buf)
    /\ AfterKeys(k - 1).x >= 1
    /\ AfterKeys(k - 1).x <= Len(TextOf(AfterKeys(k - 1).buf)[AfterKeys(k - 1).y])

\* the count pending on the editor e, 1 without one
CountOr1(e) ==
    IF e.motion.modifier.kind = "Count" THEN CountValue(e.motion.modifier) ELSE 1

\* the lines of e without the chars x with the pending count removes: the count
\* clamped to the chars from the cursor to the line end
WithoutCharsUnderCursor(e) ==
    [TextOf(e.buf) EXCEPT
        ![e.y] = SeqRemove(@, e.x - 1, Min(CountOr1(e), Len(@) - (e.x - 1)))]

\* C28: x with the count n, 1 without one, on a line of len > 0 chars with the
\* cursor at column c < len removes exactly min(n, len - c) chars from c on and
\* nothing else; afterwards the cursor's column is below the new line length, or
\* the cursor is at column 1 of the emptied line
DeleteCharsKeepsCursorOnLine ==
    (last.ticks > 0 /\ ref.mode = "Normal") =>
        \A k \in 1..Len(last.chars) :
            TypedX(k) =>
                /\ EdOk(AfterKeys(k))
                /\ TextOf(AfterKeys(k).buf) = WithoutCharsUnderCursor(AfterKeys(k - 1))
                /\ AfterKeys(k).y = AfterKeys(k - 1).y
                /\ \/ AfterKeys(k).x >= 1
                      /\ AfterKeys(k).x - 1 < Len(TextOf(AfterKeys(k).buf)[AfterKeys(k).y])
                   \/ AfterKeys(k).x = 1
                      /\ TextOf(AfterKeys(k).buf)[AfterKeys(k).y] = <<>>

(***************************************************************************)
(* C29: Enter in Insert mode.                                              *)
(***************************************************************************)
\* the lines txt with line y (1-based) broken before column c (0-based) and k
\* spaces put before the chars that moved to the new line
BrokenAt(txt, y, c, k) ==
    SubSeq(txt, 1, y - 1)
    \o << SubSeq(txt[y], 1, c), [i \in 1..k |-> 32] \o SubSeq(txt[y], c + 1, Len(txt[y])) >>
    \o SubSeq(txt, y + 1, Len(txt))

\* the spaces the chars before the cursor of the last tick begin with
IndentOfTick == LeadingSpaces(SubSeq(TextOf(ref.buf)[ref.y], 1, ref.x - 1))

\* C29: Enter in Insert mode with the cursor at 0-indexed (L, c), c <= line_len(L),
\* leaves the first c chars on line L, makes line L + 1 hold k spaces and the rest
\* of the old line, k the leading spaces of line L after the split, adds exactly
\* one line, leaves every other line and puts the cursor at x = k + 1, y = L + 2
InsertEnterSplitsAndIndents ==
    (TickedIn("Insert") /\ last.chars = <<>> /\ last.special_keys = {"Enter"}) =>
        /\ EdOk(it)
        /\ total_lines(it.buf) = total_lines(ref.buf) + 1
        /\ TextOf(it.buf) = BrokenAt(TextOf(ref.buf), ref.y, ref.x - 1, IndentOfTick)
        /\ it.x = IndentOfTick + 1 /\ it.y = ref.y + 1
        /\ it.mode = "Insert"

(***************************************************************************)
(* C30: d, i, w in Normal mode.                                            *)
(***************************************************************************)
\* the class of a char: letters, digits and '_', whitespace, or the others
ClassOf(ch) ==
    IF is_letter(ch) THEN "word" ELSE IF is_whitespace(ch) THEN "space" ELSE "other"

\* the 0-based columns of the maximal run of chars of one class around column c
\* of the line txt
RunAround(txt, c) ==
    {i \in 0..Len(txt) - 1 :
        \A j \in Min(i, c)..Max(i, c) : ClassOf(txt[j + 1]) = ClassOf(txt[c + 1])}

\* the line txt without the run around column c
WithoutRun(txt, c) == [k \in 1..Len(txt) - Cardinality(RunAround(txt, c)) |->
                          IF k - 1 < c /\ k - 1 \notin RunAround(txt, c)
                          THEN txt[k] ELSE txt[k + Cardinality(RunAround(txt, c))]]

\* C30: d, i, w in Normal mode with the cursor on a char of a line removes exactly
\* the maximal run of chars of the cursor char's class around the cursor, no
\* separator and no char of another line, and leaves the cursor on that line at a
\* column from 1 to max(1, new line length)
DeleteInsideWordRemovesRun ==
    (Typed("Normal", <<Ch("d"), Ch("i"), Ch("w")>>)
     /\ ref.x <= Len(TextOf(ref.buf)[ref.y])) =>
        /\ EdOk(it)
        /\ total_lines(it.buf) = total_lines(ref.buf)
        /\ TextOf(it.buf) = [TextOf(ref.buf) EXCEPT ![ref.y] = WithoutRun(@, ref.x - 1)]
        /\ it.y = ref.y
        /\ it.x >= 1 /\ it.x <= Max(1, Len(TextOf(it.buf)[it.y]))
        /\ it.mode = "Normal"

(***************************************************************************)
(* The word-motion specification: a file over letters, underscore, space,  *)
(* tab and punctuation is loaded and find_next_word_start is asked once    *)
(* from a cursor on it; ref is the lines of the file without separators.   *)
(***************************************************************************)
\* most chars of one line of a file of the word-motion specification
MaxWordLen == 2
\* most lines of a file of the word-motion specification
MaxWordLines == 2

\* a letter, the underscore, the space, the tab and a punctuation char
WordChars == {97, 95, 32, 9, 46}

WordLines == SeqsUpTo(SeqsUpTo(WordChars, MaxWordLen), MaxWordLines)

WordInit ==
    /\ \E ls \in WordLines : \E sep \in {LF, CRLF} : \E trailing \in BOOLEAN :
          /\ JoinLines(ls, sep, trailing) # <<>>
          /\ tb = from_data(JoinLines(ls, sep, trailing), 0, 0)
          /\ ref = ls
    /\ it = [phase |-> "loaded", cursor |-> NonePos, found |-> NonePos]
    /\ last = NoOp
    /\ gbuf = Idle

\* the columns a cursor can be on in line ln: a char of it, column 0 of an empty line
CursorCols(t, ln) == 0..(IF line_len(t, ln) > 0 THEN line_len(t, ln) - 1 ELSE 0)

\* find_next_word_start(cursor, &buf) from a cursor of the file
WordLookup ==
    /\ it.phase = "loaded"
    /\ \E ln \in 0..(total_lines(tb) - 1) : \E col \in CursorCols(tb, ln) :
          /\ it' = [phase |-> "asked", cursor |-> Pos(ln, col),
                    found |-> find_next_word_start(Pos(ln, col), tb)]
          /\ last' = Did("find_next_word_start", ln, col, ln, col)
    /\ UNCHANGED <<gbuf, ref, tb>>

WordNext == WordLookup

WordSpec == WordInit /\ [][WordNext]_vars

\* whether position p of the lines txt holds a char that starts a word: it is not
\* whitespace and it opens its line, follows whitespace or follows a char of the
\* other class
StartsWord(txt, p) ==
    /\ ~is_whitespace(txt[p.line + 1][p.col + 1])
    /\ \/ p.col = 0
       \/ is_whitespace(txt[p.line + 1][p.col])
       \/ ClassOf(txt[p.line + 1][p.col]) # ClassOf(txt[p.line + 1][p.col + 1])

\* the positions of the lines txt behind cursor that start a word
WordStartsBehind(txt, cursor) ==
    {p \in {Pos(ln, col) : ln \in 0..(Len(txt) - 1), col \in 0..MaxWordLen} :
        /\ p.col < Len(txt[p.line + 1])
        /\ PosLess(cursor, p)
        /\ StartsWord(txt, p)}

\* the first of them, None when there is none
NextWordStartOf(txt, cursor) ==
    IF WordStartsBehind(txt, cursor) = {} THEN NonePos
    ELSE CHOOSE p \in WordStartsBehind(txt, cursor) :
            \A q \in WordStartsBehind(txt, cursor) : ~PosLess(q, p)

\* C31: for every file over letters, underscore, space, tab, punctuation and line
\* separators and every cursor on it, find_next_word_start returns the first
\* position behind the cursor whose char is not whitespace and opens its line,
\* follows whitespace or follows a char of the other class, and None exactly when
\* there is no such position
NextWordStartIsFirstStart ==
    it.phase = "asked" => it.found = NextWordStartOf(ref, it.cursor)

(***************************************************************************)
(* C32: d in VisualLine mode.                                              *)
(***************************************************************************)
\* the first and the last line of the selection of the last tick
FirstSelected == PosMin(ref.visual_range_anchor, to_linepos(ref)).line

LastSelected == PosMax(ref.visual_range_anchor, to_linepos(ref)).line

\* the lines txt without the lines lo..hi (0-based); one empty line when none is left
WithoutLineRange(txt, lo, hi) ==
    IF hi - lo + 1 >= Len(txt) THEN << <<>> >>
    ELSE SubSeq(txt, 1, lo) \o SubSeq(txt, hi + 2, Len(txt))

\* C32: d in VisualLine mode with anchor a and cursor c removes the lines
\* min(a, c).line through max(a, c).line entirely, leaves the text of every other
\* line, keeps total_lines >= 1, puts the cursor on line
\* min(min(a, c).line, total_lines - 1) and sets the mode to Normal
VisualLineDeleteRemovesLines ==
    (Typed("VisualLine", <<Ch("d")>>) /\ ref.visual_range_anchor.line < total_lines(ref.buf)) =>
        /\ EdOk(it) /\ TOk(it.buf)
        /\ TextOf(it.buf) = WithoutLineRange(TextOf(ref.buf), FirstSelected, LastSelected)
        /\ total_lines(it.buf) >= 1
        /\ it.y - 1 = Min(FirstSelected, total_lines(it.buf) - 1)
        /\ it.mode = "Normal"

\* d on a selection of two lines that ends on the last line, the anchor below the
\* cursor: both are gone and the cursor is on the line that is now the last
VisualLineDeletedToLastLine ==
    /\ Typed("VisualLine", <<Ch("d")>>)
    /\ ref.visual_range_anchor.line = ref.y /\ ref.y + 1 = total_lines(ref.buf)
    /\ EdOk(it) /\ total_lines(it.buf) = total_lines(ref.buf) - 2
    /\ it.y = total_lines(it.buf) /\ it.y < ref.y

(***************************************************************************)
(* C33: the visual anchor under movement keys.                             *)
(***************************************************************************)
\* the keys of the pure movements: h, j, k, l, w, W, b, e, $, n, N, G, g and the
\* digits of a count or of the movement 0
MoveKeys ==
    {Ch("h"), Ch("j"), Ch("k"), Ch("l"), Ch("w"), Ch("W"), Ch("b"), Ch("e"), Ch("$"),
     Ch("n"), Ch("N"), Ch("G"), Ch("g")} \cup (48..57)

\* whether the k-th char of the last tick was typed in Normal, Visual or
\* VisualLine mode with the editor running
KeyTyped(k) ==
    /\ last.ticks > 0 /\ ref.mode \in {"Normal", "Visual", "VisualLine"}
    /\ EdOk(AfterKeys(k - 1))

\* whether the k-th char of the last tick is a movement key typed in Visual or
\* VisualLine mode, no Inside or Around pending, that left the mode as it was
MovedInVisual(k) ==
    /\ KeyTyped(k)
    /\ AfterKeys(k - 1).mode \in {"Visual", "VisualLine"}
    /\ last.chars[k] \in MoveKeys
    /\ AfterKeys(k - 1).motion.modifier.kind \in {"None", "Count"}
    /\ AfterKeys(k).mode = AfterKeys(k - 1).mode

\* whether the k-th char of the last tick entered Visual or VisualLine mode
EnteredVisual(k) ==
    /\ KeyTyped(k)
    /\ last.chars[k] \in {Ch("v"), Ch("V")}
    /\ EdOk(AfterKeys(k))
    /\ AfterKeys(k).mode \in {"Visual", "VisualLine"}

MaxCmdLen == 3

\* the letters of e, edit, q, quit, w, write, and the letters a and z
CmdChars == {97, 100, 101, 105, 113, 114, 116, 117, 119, 122}

CmdInputs == SeqsUpTo(CmdChars, MaxCmdLen) \cup {NAMES[k] : k \in 1..Len(NAMES)}

CmdInit ==
    /\ \E input \in CmdInputs : it = [phase |-> "typed", input |-> input, found |-> "None"]
    /\ last = NoOp
    /\ gbuf = Idle
    /\ ref = Idle
    /\ tb = Idle

\* match_cmd(input)
CmdLookup ==
    /\ it.phase = "typed"
    /\ it' = [it EXCEPT !.phase = "matched", !.found = match_cmd(it.input)]
    /\ last' = Did("match_cmd", 0, 0, 0, 0)
    /\ UNCHANGED <<gbuf, ref, tb>>

CmdNext == CmdLookup

CmdSpec == CmdInit /\ [][CmdNext]_vars

\* the handlers of the command names that start with input
HandlersFor(input) == {FUNCTIONS[k] : k \in {j \in 1..Len(NAMES) : starts_with(NAMES[j], input)}}

\* C34: match_cmd returns the handler of a command whenever the input is a command
\* name or a prefix of one, and None, without failing, for every other input, the
\* inputs that sort before the first and behind the last name of the table included
MatchCmdFindsPrefixesOnly ==
    it.phase = "matched" =>
        IF HandlersFor(it.input) = {} THEN it.found = "None"
        ELSE it.found \in HandlersFor(it.input)

(***************************************************************************)
(* The count specification: digit keys are handed to Motion::parse one by  *)
(* one in Normal mode, the first of them not behind another key; hi and lo *)
(* are the limbs of the number typed.                                      *)
(***************************************************************************)
\* most digit keys typed in a row
MaxDigits == 10

\* the digits typed
DigitKeys == {0, 4, 9}

DigitInit ==
    /\ it = [phase |-> "idle", motion |-> Motion_new, hi |-> 0, lo |-> 0, keys |-> 0]
    /\ last = NoOp
    /\ gbuf = Idle
    /\ ref = Idle
    /\ tb = Idle

\* motion.parse(char, EditorMode::Normal) for a digit char; a 0 typed first gives
\* the motion an object, and a debug build stops at the overflow of the count
TypeDigit ==
    /\ it.phase \in {"idle", "digits"} /\ it.keys < MaxDigits
    /\ it.motion.modifier.kind # "Overflow"
    /\ \E d \in DigitKeys :
          /\ it' = [phase |-> IF it.phase = "idle" /\ d = 0 THEN "zero" ELSE "digits",
                    motion |-> Motion_parse(it.motion, 48 + d, "Normal"),
                    hi |-> it.hi * 10 + ((it.lo * 10 + d) \div Limb),
                    lo |-> (it.lo * 10 + d) % Limb,
                    keys |-> it.keys + 1]
          /\ last' = Did("parse", d, 0, d, 0)
    /\ UNCHANGED <<gbuf, ref, tb>>

DigitNext == TypeDigit

DigitSpec == DigitInit /\ [][DigitNext]_vars

\* C35: after the digit keys d1..dk, d1 in 1..9, the pending modifier is the Count
\* of their decimal value for every k, without wrap-around and without abort, and
\* no object is set; a 0 typed with no Count pending sets the object LineStart
DigitsAccumulateCount ==
    /\ it.phase = "digits" =>
          /\ it.motion.modifier = [kind |-> "Count", n |-> it.lo, hi |-> it.hi]
          /\ it.motion.object = "None" /\ it.motion.action = "None"
    /\ it.phase = "zero" =>
          /\ it.motion.object = "LineStart" /\ it.motion.modifier = NoModifier

(***************************************************************************)
(* C36: the cursor column at the end of a tick.                            *)
(***************************************************************************)
\* whether no char of the buffer of e has a lead byte 0xD0..0xDF, the chars
\* Utf8Iter::next ends a line at
NoShortLines(e) ==
    \A i \in 1..Len(Content(e.buf)) : Content(e.buf)[i] \notin 208..223

\* C36: at the end of every tick, in every mode, the cursor is on a line of the
\* buffer and cursor.x <= line_len(cursor.y - 1) + 1 (judged on buffers whose
\* lines the iterator reads to their end)
CursorColumnWithinLine ==
    (last.ticks > 0 /\ EdOk(it) /\ NoShortLines(it)) =>
        /\ it.y >= 1 /\ it.y <= total_lines(it.buf)
        /\ line_len(it.buf, it.y - 1) >= 0
        /\ it.x <= line_len(it.buf, it.y - 1) + 1

(***************************************************************************)
(* C37: no tick aborts.                                                    *)
(***************************************************************************)
\* C37: started on a non-empty buffer of valid UTF-8, no sequence of ticks reaches
\* an access out of range, an unsigned subtraction below zero or an unimplemented
\* branch: after every tick the editor is still running
NoTickAborts == last.ticks > 0 => EdOk(it)

(***************************************************************************)
(* The search specification: a file over two letters is loaded, a char may *)
(* be typed into a line, which leaves the gap behind it, and search is     *)
(* asked once for a needle.                                                *)
(***************************************************************************)
\* most chars of one line of a file, and of a needle, of the search specification
MaxNeedle == 2

SearchChars == {97, 98}

SearchFiles ==
    {JoinLines(ls, LF, FALSE) : ls \in SeqsUpTo(SeqsUpTo(SearchChars, MaxNeedle), MaxInitLines)}
    \ {<<>>}

Needles == SeqsUpTo(SearchChars, MaxNeedle) \ {<<>>}

SearchInit ==
    /\ \E bytes \in SearchFiles : tb = from_data(bytes, 0, 0)
    /\ it = [phase |-> "loaded", needle |-> <<>>, found |-> <<>>]
    /\ last = NoOp
    /\ gbuf = Idle
    /\ ref = Idle

\* buffer.insert_into_line(line, index, char) as a tick of Insert mode does it
SearchEdit ==
    /\ it.phase = "loaded"
    /\ \E ln \in 0..(total_lines(tb) - 1) : \E col \in 0..line_len(tb, ln) :
       \E c \in SearchChars : \E slack \in 0..ReserveSlack :
          /\ tb' = insert_into_line(tb, ln, col, <<c>>, slack)
          /\ last' = Did("insert_into_line", ln, col, ln, col)
    /\ it' = [it EXCEPT !.phase = "edited"]
    /\ UNCHANGED <<gbuf, ref>>

\* search(needle, &buf)
SearchRun ==
    /\ it.phase \in {"loaded", "edited"} /\ TOk(tb)
    /\ \E needle \in Needles :
          it' = [phase |-> "searched", needle |-> needle, found |-> search(needle, tb)]
    /\ last' = [last EXCEPT !.op = "search"]
    /\ UNCHANGED <<gbuf, ref, tb>>

SearchNext == SearchEdit \/ SearchRun

SearchSpec == SearchInit /\ [][SearchNext]_vars

\* the buffer of the same bytes loaded afresh, the gap at its end
Reloaded(t) == from_data(Content(t), 0, 0)

\* whether the gap of the buffer is not empty and has bytes on both sides
GapInside(t) ==
    /\ t.chars.gap_start < t.chars.gap_end
    /\ t.chars.gap_start > 0 /\ t.chars.gap_end < Len(t.chars.data)

\* C38: search depends on the logical content only: the buffer with the gap where
\* the last edit left it gives the list the same bytes give with the gap at the
\* end, an occurrence with bytes on both sides of the gap included (judged where
\* the gap is at the end or holds at least one cell)
SearchIgnoresGap ==
    (it.phase = "searched" /\ (GapInside(tb) \/ tb.chars.gap_end = Len(tb.chars.data))) =>
        it.found = search(it.needle, Reloaded(tb))

(***************************************************************************)
(* The push_back specification: the gap-array specification with one       *)
(* push_back at the end of the run; ref receives the data at its end.      *)
(***************************************************************************)
GapPushBack ==
    /\ gbuf.ok
    /\ \E d \in SeqsUpTo(Elems, MaxData) : \E slack \in Slacks(gbuf, Len(d)) :
          /\ len(gbuf) + Len(d) <= MaxLen
          /\ gbuf' = push_back(gbuf, d, slack)
          /\ ref' = ref \o d
          /\ last' = [op |-> "push_back", grew |-> gbuf.gap_end - gbuf.gap_start < Len(d),
                      moved |-> gbuf.gap_start # len(gbuf)]
    /\ UNCHANGED <<tb, it>>

PushNext == (last.op # "push_back" /\ GapNext) \/ GapPushBack

PushSpec == GapInit /\ [][PushNext]_vars

\* C39: push_back(data) in a state reached by inserts and removes, the gap at the
\* end or in the middle, with or without a reallocation, appends data at the
\* logical end: len() has grown by data.len() and the content is the old content
\* followed by data
PushBackAppends ==
    last.op = "push_back" =>
        /\ gbuf.ok
        /\ len(gbuf) = Len(ref)
        /\ get_to_end(gbuf, 0) = ref

(***************************************************************************)
(* C40: v in Visual mode, V in VisualLine mode.                            *)
(***************************************************************************)
\* C40: v typed in Visual mode, and V typed in VisualLine mode, returns the editor
\* to Normal mode instead of entering the visual mode again with a new anchor
VisualKeyTogglesOff ==
    /\ Typed("Visual", <<Ch("v")>>) => (EdOk(it) /\ it.mode = "Normal")
    /\ Typed("VisualLine", <<Ch("V")>>) => (EdOk(it) /\ it.mode = "Normal")

====
